---- MODULE Spec2Model ----
(***************************************************************************)
(* Access control, role resolution and reference-data caching of the      *)
(* stores microservice.                                                    *)
(*                                                                         *)
(*   Spec       requests against the products and product-attributes       *)
(*              repositories under an evaluator built by get_acl           *)
(*   SpecRoles  role grants and revocations interleaved with role lookups  *)
(*   SpecCache  category / attribute writers interleaved with readers      *)
(*   SpecRepo   the reads of the products repository that answer a Vec     *)
(*   SpecCheck  single access checks over answered ownership queries       *)
(*   SpecService  deactivate_product and create_product in a transaction   *)
(*   SpecUpdate update_product in a transaction                            *)
(*   SpecWrite  the repository calls that check before they write          *)
(*   SpecProductsRepo  every operation of the products repository          *)
(*   SpecTxn    create_product and update_product of two requests, each    *)
(*              in its own transaction, side by side                       *)
(***************************************************************************)
EXTENDS Integers, Sequences, FiniteSets, TLC

\* ---------------------------------------------------------------- bounds
\* Largest id the user_roles table hands out (rows ever inserted).
MaxRoleRows == 2
\* Number of category / attribute writes per behaviour.
MaxWrites == 2
\* Largest number of rows of the products table.
MaxProducts == 3
\* Largest id the prod_attr_values table has handed out when an update starts.
MaxAttrId == 4
\* Number of writes to the attributes table per behaviour of SpecWrite.
MaxAttrWrites == 1

\* ------------------------------------------------------------ id domains
\* Option<UserId>::None
NoUser == 0
UserIds == {1, 2}
StoreIds == {1, 2}
BaseProductIds == {1, 2}
ProductIds == {1, 2}
\* ids a caller may ask for: the product ids and one that has no row
LookupIds == {1, 2, 3}

StoresRole == {"Superuser", "User", "Moderator"}
Resource == {"Products", "ProductAttrs", "Stores", "UserRoles", "Attributes",
             "Categories", "ModeratorProductComments"}
Action == {"Read", "Create", "Update", "Delete"}
Scope == {"All", "Owned"}

\* ------------------------------------------------------- permission table
\* The static (Role, Resource, Action) -> Scope table; "Deny" where no rule.
PermissionTable(role, resource, action) ==
    CASE role = "Superuser" -> "All"
      [] role = "User" ->
            IF resource \in {"Products", "ProductAttrs", "Stores"} THEN "Owned"
            ELSE IF resource = "UserRoles" /\ action = "Read" THEN "Owned"
            ELSE IF resource \in {"Categories", "Attributes"} /\ action = "Read"
                 THEN "All"
            ELSE "Deny"
      [] role = "Moderator" ->
            IF resource = "ModeratorProductComments" THEN "All"
            ELSE IF resource = "Products" /\ action = "Read" THEN "All"
            ELSE "Deny"
      [] OTHER -> "Deny"

\* The pairs the unauthorized evaluator lets through.
Public(resource, action) ==
    action = "Read" /\ resource \in {"Categories", "Attributes"}

\* ------------------------------------------------------------ evaluators
UnauthorizedAcl == [kind |-> "Unauthorized", roles |-> <<>>, user_id |-> NoUser]
SystemACL == [kind |-> "System", roles |-> <<>>, user_id |-> NoUser]
ApplicationAcl(roles, id) == [kind |-> "Application", roles |-> roles, user_id |-> id]

\* ------------------------------------------------------- ownership chain
\* A query through the connection: the rows with that id, none when the
\* connection is unusable (get_result then gives Err).
FindById(table, id, conn_ok) ==
    IF conn_ok THEN {row \in table : row.id = id} ELSE {}

\* Mutant: the All arm is not taken, every scope goes through ownership.
products_is_in_scope_no_all(db, conn_ok, user_id, scope, obj) ==
    IF obj # {} THEN
        \E product \in obj :
            \E base_prod \in FindById(db.base_products, product.base_product_id, conn_ok) :
                \E store \in FindById(db.stores, base_prod.store_id, conn_ok) :
                    store.user_id = user_id
    ELSE FALSE

\* Mutant: the store hop is skipped, the store id is taken for the owner.
products_is_in_scope_no_store_hop(db, conn_ok, user_id, scope, obj) ==
    CASE scope = "All" -> TRUE
      [] scope = "Owned" ->
            IF obj # {} THEN
                \E product \in obj :
                    \E base_prod \in FindById(db.base_products, product.base_product_id, conn_ok) :
                        base_prod.store_id = user_id
            ELSE FALSE

\* Mutant: an Owned grant is in scope for any entity that is given.
products_is_in_scope_owned_any(db, conn_ok, user_id, scope, obj) ==
    CASE scope = "All" -> TRUE
      [] scope = "Owned" -> obj # {}

\* Mutant: a missing base-product row falls back to "in scope".
products_is_in_scope_default_owner(db, conn_ok, user_id, scope, obj) ==
    CASE scope = "All" -> TRUE
      [] scope = "Owned" ->
            IF obj # {} THEN
                \E product \in obj :
                    LET bps == FindById(db.base_products, product.base_product_id, conn_ok)
                    IN  IF bps = {} THEN TRUE
                        ELSE \E base_prod \in bps :
                                \E store \in FindById(db.stores, base_prod.store_id, conn_ok) :
                                    store.user_id = user_id
            ELSE FALSE

\* CheckScope<Scope, Product> for ProductsRepoImpl. obj is Option<&Product>
\* as a set of at most one row; a failed query is .ok().unwrap_or(false).
products_is_in_scope(db, conn_ok, user_id, scope, obj) ==
    CASE scope = "All" -> TRUE
      [] scope = "Owned" ->
            IF obj # {} THEN
                \E product \in obj :
                    \E base_prod \in FindById(db.base_products, product.base_product_id, conn_ok) :
                        \E store \in FindById(db.stores, base_prod.store_id, conn_ok) :
                            store.user_id = user_id
            ELSE FALSE

\* Mutant: an Owned grant is in scope when no entity is given.
product_attrs_is_in_scope_owned_none(db, conn_ok, user_id, scope, obj) ==
    CASE scope = "All" -> TRUE
      [] scope = "Owned" ->
            IF obj # {} THEN
                \E prod_attr \in obj :
                    \E base_prod \in FindById(db.base_products, prod_attr.base_prod_id, conn_ok) :
                        \E store \in FindById(db.stores, base_prod.store_id, conn_ok) :
                            store.user_id = user_id
            ELSE TRUE

\* CheckScope<Scope, ProdAttr> for ProductAttrsRepoImpl.
product_attrs_is_in_scope(db, conn_ok, user_id, scope, obj) ==
    CASE scope = "All" -> TRUE
      [] scope = "Owned" ->
            IF obj # {} THEN
                \E prod_attr \in obj :
                    \E base_prod \in FindById(db.base_products, prod_attr.base_prod_id, conn_ok) :
                        \E store \in FindById(db.stores, base_prod.store_id, conn_ok) :
                            store.user_id = user_id
            ELSE FALSE

\* ------------------------------------------------------------- the check
\* Roles are tried in listed order; the first grant that is in scope allows.
\* The scope checker handed to the check is the repository itself.
is_in_scope(scope_checker, user_id, scope, obj) ==
    IF scope_checker.repo = "product_attrs"
    THEN product_attrs_is_in_scope(scope_checker.db, scope_checker.conn_ok,
                                   user_id, scope, obj)
    ELSE products_is_in_scope(scope_checker.db, scope_checker.conn_ok,
                              user_id, scope, obj)

RECURSIVE allows_from(_, _, _, _, _, _, _)
allows_from(i, roles, user_id, resource, action, scope_checker, obj) ==
    IF i > Len(roles) THEN FALSE
    ELSE LET scope == PermissionTable(roles[i], resource, action)
         IN  IF scope \in Scope /\ is_in_scope(scope_checker, user_id, scope, obj)
             THEN TRUE
             ELSE allows_from(i + 1, roles, user_id, resource, action,
                              scope_checker, obj)

\* acl::check: TRUE for Ok(()), FALSE for Err(Denied).
check(acl, resource, action, scope_checker, obj) ==
    CASE acl.kind = "System" -> TRUE
      [] acl.kind = "Unauthorized" -> Public(resource, action)
      [] acl.kind = "Application" ->
            allows_from(1, acl.roles, acl.user_id, resource, action,
                        scope_checker, obj)

\* ------------------------------------------------------------ user roles
UserRoleRows(rows, user_id_value) == {r \in rows : r.user_id = user_id_value}

RECURSIVE RolesById(_)
RolesById(rows) ==
    IF rows = {} THEN <<>>
    ELSE LET first == CHOOSE r \in rows : \A q \in rows : r.id <= q.id
         IN  <<first.role>> \o RolesById(rows \ {first})

\* UserRolesRepoImpl::list_for_user: the roles of the user's rows, by row id.
list_for_user(rows, user_id_value) == RolesById(UserRoleRows(rows, user_id_value))

\* UserRolesRepoImpl::create: insert_into(user_roles).values(&payload).
user_roles_create(rows, id, payload) ==
    rows \cup {[id |-> id, user_id |-> payload.user_id, role |-> payload.role]}

\* Mutant: only the row with the smallest id among the matching ones goes.
user_roles_delete_first_only(rows, payload) ==
    LET hit == {r \in rows : r.user_id = payload.user_id /\ r.role = payload.role}
    IN  IF hit = {} THEN rows
        ELSE rows \ {CHOOSE r \in hit : \A q \in hit : r.id <= q.id}

\* Mutant: the role filter is lost, every role of the user goes.
user_roles_delete_all_of_user(rows, payload) ==
    {r \in rows : r.user_id # payload.user_id}

\* UserRolesRepoImpl::delete: delete(filter(user_id.eq(..)).filter(role.eq(..))).
user_roles_delete(rows, payload) ==
    {r \in rows : ~(r.user_id = payload.user_id /\ r.role = payload.role)}

\* ------------------------------------------------------------ roles cache
NoEntry == [present |-> FALSE, roles |-> <<>>]
EmptyRolesCache == [u \in UserIds |-> NoEntry]
RolesCache_set(cache, id, roles) ==
    [cache EXCEPT ![id] = [present |-> TRUE, roles |-> roles]]

\* Mutant: the entry is left in place.
RolesCache_remove_nothing(cache, id) == cache

RolesCache_remove(cache, id) == [cache EXCEPT ![id] = NoEntry]

\* list_for_user of the repository built with the roles cache: a cached
\* entry answers, otherwise the table is read and the answer is cached.
cached_list_for_user(cache, rows, conn_ok, id) ==
    IF cache[id].present
    THEN [ok |-> TRUE, roles |-> cache[id].roles, lookup |-> "cached", cache |-> cache]
    ELSE IF conn_ok
    THEN LET roles == list_for_user(rows, id)
         IN  [ok |-> TRUE, roles |-> roles, lookup |-> "db",
              cache |-> RolesCache_set(cache, id, roles)]
    ELSE [ok |-> FALSE, roles |-> <<>>, lookup |-> "failed", cache |-> cache]

\* list_for_user of a user-roles repository built with evaluator acl: the
\* evaluator is asked for (UserRoles, Read) before the roles are looked up.
user_roles_list_for_user(acl, cache, rows, conn_ok, id) ==
    IF check(acl, "UserRoles", "Read",
             [repo |-> "user_roles", db |-> <<>>, conn_ok |-> conn_ok], {})
    THEN cached_list_for_user(cache, rows, conn_ok, id)
    ELSE [ok |-> FALSE, roles |-> <<>>, lookup |-> "denied", cache |-> cache]

\* Mutant: the repository is built with the evaluator of the user whose roles
\* are being resolved, which at that point has no roles yet.
get_roles_with_user_acl(cache, rows, conn_ok, id) ==
    LET r == user_roles_list_for_user(ApplicationAcl(<<>>, id), cache, rows, conn_ok, id)
    IN  [roles |-> IF r.ok THEN r.roles ELSE <<>>, lookup |-> r.lookup, cache |-> r.cache]

\* ReposFactoryImpl::get_roles:
\* create_user_roles_repo_with_sys_acl(db_conn).list_for_user(id).ok().unwrap_or_default()
get_roles(cache, rows, conn_ok, id) ==
    LET r == user_roles_list_for_user(SystemACL, cache, rows, conn_ok, id)
    IN  [roles |-> IF r.ok THEN r.roles ELSE <<>>, lookup |-> r.lookup, cache |-> r.cache]

\* Mutant: an absent user id is looked up like a user id.
get_acl_lookup_default_id(cache, rows, conn_ok, user_id) ==
    LET id == IF user_id = NoUser THEN 1 ELSE user_id
        g == get_roles(cache, rows, conn_ok, id)
    IN  [acl |-> ApplicationAcl(g.roles, id), lookup |-> g.lookup, cache |-> g.cache]

\* ReposFactoryImpl::get_acl: user_id.map_or(UnauthorizedAcl, |id| ApplicationAcl)
get_acl(cache, rows, conn_ok, user_id) ==
    IF user_id = NoUser
    THEN [acl |-> UnauthorizedAcl, lookup |-> "none", cache |-> cache]
    ELSE LET g == get_roles(cache, rows, conn_ok, user_id)
         IN  [acl |-> ApplicationAcl(g.roles, user_id), lookup |-> g.lookup,
              cache |-> g.cache]

\* ------------------------------------------------------ products repository
\* What a repository call gave its caller, and the check it ran.
Outcome(result, found, chk, rows) ==
    [result |-> result, found |-> found, check |-> chk, rows |-> rows]

ProductsScope(db, conn_ok, acl, resource, action, obj) ==
    check(acl, resource, action,
          [repo |-> "products", db |-> db, conn_ok |-> conn_ok], obj)

ProductAttrsScope(db, conn_ok, acl, resource, action, obj) ==
    check(acl, resource, action,
          [repo |-> "product_attrs", db |-> db, conn_ok |-> conn_ok], obj)

\* Mutant: find without the filter on is_active.
products_find_inactive_too(acl, conn_ok, db, product_id_arg) ==
    IF ~conn_ok THEN Outcome("DbError", FALSE, "none", {})
    ELSE LET hit == {p \in db.products : p.id = product_id_arg}
         IN  IF hit = {} THEN Outcome("None", FALSE, "none", {})
             ELSE IF ProductsScope(db, conn_ok, acl, "Products", "Read", hit)
                  THEN Outcome("Some", TRUE, "pass", hit)
                  ELSE Outcome("Denied", TRUE, "fail", {})

\* ProductsRepoImpl::find: Ok(Some(row)) "Some", Ok(None) "None",
\* Err of the check "Denied", Err of the query "DbError".
products_find(acl, conn_ok, db, product_id_arg) ==
    IF ~conn_ok THEN Outcome("DbError", FALSE, "none", {})
    ELSE LET hit == {p \in db.products : p.id = product_id_arg /\ p.is_active}
         IN  IF hit = {} THEN Outcome("None", FALSE, "none", {})
             ELSE IF ProductsScope(db, conn_ok, acl, "Products", "Read", hit)
                  THEN Outcome("Some", TRUE, "pass", hit)
                  ELSE Outcome("Denied", TRUE, "fail", {})

\* ProductsRepoImpl::deactivate: the row is read (active or not), checked
\* for Delete, then the active row is updated; get_result on no row is Err.
products_deactivate(acl, conn_ok, db, product_id_arg) ==
    IF ~conn_ok THEN [out |-> Outcome("DbError", FALSE, "none", {}), products |-> db.products]
    ELSE LET hit == {p \in db.products : p.id = product_id_arg}
             active == {p \in hit : p.is_active}
         IN  IF hit = {}
             THEN [out |-> Outcome("NotFound", FALSE, "none", {}), products |-> db.products]
             ELSE IF ~ProductsScope(db, conn_ok, acl, "Products", "Delete", hit)
             THEN [out |-> Outcome("Denied", TRUE, "fail", {}), products |-> db.products]
             ELSE IF active = {}
             THEN [out |-> Outcome("NotFound", TRUE, "pass", {}), products |-> db.products]
             ELSE LET updated == {[p EXCEPT !.is_active = FALSE] : p \in active}
                  IN  [out |-> Outcome("Ok", TRUE, "pass", updated),
                       products |-> (db.products \ active) \cup updated]

\* ProductAttrsRepoImpl::find_all_attributes: every row of the product is
\* checked for Read; the first failing check is the Err of the call.
product_attrs_find_all_attributes(acl, conn_ok, db, attr_rows, product_id_arg) ==
    IF ~conn_ok THEN Outcome("DbError", FALSE, "none", {})
    ELSE LET hit == {a \in attr_rows : a.prod_id = product_id_arg}
         IN  IF hit = {} THEN Outcome("Rows", FALSE, "none", {})
             ELSE IF \A a \in hit :
                        ProductAttrsScope(db, conn_ok, acl, "ProductAttrs", "Read", {a})
                  THEN Outcome("Rows", TRUE, "pass", hit)
                  ELSE Outcome("Denied", TRUE, "fail", {})

\* Rows in ascending id order (.order(id)) and in descending id order
\* (.order_by(id.desc())).
RECURSIVE OrderById(_)
OrderById(rows) ==
    IF rows = {} THEN <<>>
    ELSE LET first == CHOOSE r \in rows : \A o \in rows : r.id <= o.id
         IN  <<first>> \o OrderById(rows \ {first})

RECURSIVE OrderByIdDesc(_)
OrderByIdDesc(rows) ==
    IF rows = {} THEN <<>>
    ELSE LET first == CHOOSE r \in rows : \A o \in rows : r.id >= o.id
         IN  <<first>> \o OrderByIdDesc(rows \ {first})

\* .limit(count): a negative LIMIT is an error of the query.
Limit(s, count) == SubSeq(s, 1, IF count < Len(s) THEN count ELSE Len(s))

\* A call that answers an ordered Vec: rows holds its elements, seq the Vec.
OutcomeVec(result, found, chk, s) ==
    [result |-> result, found |-> found, check |-> chk,
     rows |-> {s[i] : i \in DOMAIN s}, seq |-> s]

\* for product in &products_res { acl::check(.., Action::Read, self, Some(&product))?; }
\* Ok(products_res.clone())
products_checked_rows(acl, conn_ok, db, s) ==
    IF s = <<>> THEN OutcomeVec("Rows", FALSE, "none", <<>>)
    ELSE IF \A i \in DOMAIN s : ProductsScope(db, conn_ok, acl, "Products", "Read", {s[i]})
    THEN OutcomeVec("Rows", TRUE, "pass", s)
    ELSE OutcomeVec("Denied", TRUE, "fail", <<>>)

\* Mutant: the rows that pass are returned, the others dropped.
products_find_many_filtering(acl, conn_ok, db, product_ids) ==
    IF ~conn_ok THEN OutcomeVec("DbError", FALSE, "none", <<>>)
    ELSE LET hit == {p \in db.products : p.id \in product_ids /\ p.is_active}
             pass == {p \in hit : ProductsScope(db, conn_ok, acl, "Products", "Read", {p})}
         IN  OutcomeVec("Rows", hit # {}, IF hit = {} THEN "none" ELSE "pass",
                        OrderById(pass))

\* ProductsRepoImpl::find_many
products_find_many(acl, conn_ok, db, product_ids) ==
    IF ~conn_ok THEN OutcomeVec("DbError", FALSE, "none", <<>>)
    ELSE LET hit == {p \in db.products : p.id \in product_ids /\ p.is_active}
         IN  products_checked_rows(acl, conn_ok, db, OrderById(hit))

\* Mutant: the limit is applied before the filter on is_active.
products_list_limit_first(acl, conn_ok, db, from, count) ==
    IF ~conn_ok \/ count < 0 THEN OutcomeVec("DbError", FALSE, "none", <<>>)
    ELSE LET hit == {p \in db.products : p.id >= from}
             page == Limit(OrderById(hit), count)
         IN  products_checked_rows(acl, conn_ok, db,
                 SelectSeq(page, LAMBDA p : p.is_active))

\* ProductsRepoImpl::list
products_list(acl, conn_ok, db, from, count) ==
    IF ~conn_ok \/ count < 0 THEN OutcomeVec("DbError", FALSE, "none", <<>>)
    ELSE LET hit == {p \in db.products : p.is_active /\ p.id >= from}
         IN  products_checked_rows(acl, conn_ok, db, Limit(OrderById(hit), count))

\* ProductsRepoImpl::find_with_base_id
products_find_with_base_id(acl, conn_ok, db, base_id_arg) ==
    IF ~conn_ok THEN OutcomeVec("DbError", FALSE, "none", <<>>)
    ELSE LET hit == {p \in db.products : p.base_product_id = base_id_arg /\ p.is_active}
         IN  products_checked_rows(acl, conn_ok, db, OrderByIdDesc(hit))

\* Mutant: the currency is set on the inactive products of the base product too.
products_update_currency_inactive_too(acl, conn_ok, db, currency_arg, base_id_arg) ==
    IF ~conn_ok
    THEN [out |-> Outcome("DbError", FALSE, "none", {}), count |-> 0, products |-> db.products]
    ELSE LET hit == {p \in db.products : p.base_product_id = base_id_arg /\ p.is_active}
             all == {p \in db.products : p.base_product_id = base_id_arg}
             updated == {[p EXCEPT !.currency = currency_arg] : p \in all}
         IN  IF \E p \in hit : ~ProductsScope(db, conn_ok, acl, "Products", "Read", {p})
             THEN [out |-> Outcome("Denied", TRUE, "fail", {}), count |-> 0,
                   products |-> db.products]
             ELSE [out |-> Outcome("Ok", hit # {}, IF hit = {} THEN "none" ELSE "pass", updated),
                   count |-> Cardinality(all),
                   products |-> (db.products \ all) \cup updated]

\* ProductsRepoImpl::update_currency: the active products of the base
\* product are read and each checked for Read, then the update runs on the
\* same filter; execute gives the number of rows it set.
products_update_currency(acl, conn_ok, db, currency_arg, base_id_arg) ==
    IF ~conn_ok
    THEN [out |-> Outcome("DbError", FALSE, "none", {}), count |-> 0, products |-> db.products]
    ELSE LET hit == {p \in db.products : p.base_product_id = base_id_arg /\ p.is_active}
             updated == {[p EXCEPT !.currency = currency_arg] : p \in hit}
         IN  IF \E p \in hit : ~ProductsScope(db, conn_ok, acl, "Products", "Read", {p})
             THEN [out |-> Outcome("Denied", TRUE, "fail", {}), count |-> 0,
                   products |-> db.products]
             ELSE [out |-> Outcome("Ok", hit # {}, IF hit = {} THEN "none" ELSE "pass", updated),
                   count |-> Cardinality(hit),
                   products |-> (db.products \ hit) \cup updated]

\* ProductAttrsRepoImpl::delete_all_attributes: the rows of the product are
\* deleted and returned by the query, then each is checked for Delete; a
\* failed check is the Err of the call, after the delete ran. scope_ok tells
\* whether the ownership queries of the check are answered.
product_attrs_delete_all_attributes(acl, conn_ok, scope_ok, db, attr_rows, product_id_arg) ==
    IF ~conn_ok
    THEN [out |-> Outcome("DbError", FALSE, "none", {}), prod_attr_values |-> attr_rows]
    ELSE LET hit == {a \in attr_rows : a.prod_id = product_id_arg}
             left == attr_rows \ hit
         IN  IF hit = {}
             THEN [out |-> Outcome("Rows", FALSE, "none", {}), prod_attr_values |-> left]
             ELSE IF \A a \in hit :
                        ProductAttrsScope(db, scope_ok, acl, "ProductAttrs", "Delete", {a})
             THEN [out |-> Outcome("Rows", TRUE, "pass", hit), prod_attr_values |-> left]
             ELSE [out |-> Outcome("Denied", TRUE, "fail", {}), prod_attr_values |-> left]

\* ------------------------------------------------------- products service
\* Where a request loses its connection: 0 never, n before its n-th query
\* inside the transaction (the ownership queries of a check count as one).
FailPoints == {0, 1, 2, 3, 4, 5, 6, 7, 8}
ConnAt(n, fail_at) == fail_at = 0 \/ n < fail_at

\* Mutant: the writes of a failed closure stay.
Transaction_no_rollback(before, closure, fail_at) ==
    IF closure.out.result \in {"Ok", "Rows", "Some"} /\ fail_at = 0
    THEN closure
    ELSE [closure EXCEPT !.out.rows = {}]

\* What conn.transaction leaves: the tables of the closure when it returned
\* Ok and the commit went through, the tables as they were otherwise.
Transaction(before, closure, fail_at) ==
    IF closure.out.result \in {"Ok", "Rows", "Some"} /\ fail_at = 0
    THEN closure
    ELSE [out |-> IF closure.out.result \in {"Ok", "Rows", "Some"}
                  THEN Outcome("DbError", FALSE, "none", {})
                  ELSE [closure.out EXCEPT !.rows = {}],
          products |-> before.products,
          prod_attr_values |-> before.prod_attr_values]

\* The closure of ProductsService::deactivate_product:
\* products_repo.deactivate(product_id)?, prod_attr_repo.delete_all_attributes(id)?
deactivate_product_closure(acl, fail_at, tables, product_id) ==
    LET d == products_deactivate(acl, ConnAt(1, fail_at), tables, product_id)
    IN  IF d.out.result # "Ok"
        THEN [out |-> d.out, products |-> tables.products,
              prod_attr_values |-> tables.prod_attr_values]
        ELSE LET after == [tables EXCEPT !.products = d.products]
                 a == product_attrs_delete_all_attributes(
                          acl, ConnAt(2, fail_at), ConnAt(3, fail_at), after,
                          tables.prod_attr_values, product_id)
             IN  IF a.out.result # "Rows"
                 THEN [out |-> a.out, products |-> d.products,
                       prod_attr_values |-> a.prod_attr_values]
                 ELSE [out |-> d.out, products |-> d.products,
                       prod_attr_values |-> a.prod_attr_values]

\* ------------------------------------------------------------------ state
VARIABLES
    user_roles,        \* rows of the user_roles table
    next_role_id,      \* the table's serial
    roles_cache,       \* the shared roles cache
    stores,            \* rows of the stores table
    base_products,     \* rows of the base_products table
    products,          \* rows of the products table
    prod_attr_values,  \* rows of the prod_attr_values table
    req,               \* the request in flight: its connection and evaluator
    last,              \* what the last repository call returned
    hist,              \* the last role edits, for the temporal claims
    categories,        \* committed version of the categories table
    category_cache,    \* the shared category cache
    attributes,        \* committed version of each attributes row
    attribute_cache,   \* the shared attribute cache
    writer,            \* the mutation request in flight
    readers,           \* the read requests in flight
    acked,             \* versions whose write has returned success
    txns               \* the service transactions in flight

acl_vars == <<user_roles, next_role_id, roles_cache, stores, base_products, products,
              prod_attr_values, req, last, hist>>
cache_vars == <<categories, category_cache, attributes, attribute_cache, writer,
                readers, acked>>
txn_vars == <<txns>>
vars == <<acl_vars, cache_vars, txn_vars>>

db == [stores |-> stores, base_products |-> base_products, products |-> products]

IdleReq == [pc |-> "idle", user_id |-> NoUser, conn_ok |-> TRUE,
            acl |-> UnauthorizedAcl, lookup |-> "none"]
NoCall == [op |-> "none", arg |-> 0, acl |-> UnauthorizedAcl,
           out |-> Outcome("none", FALSE, "none", {})]
NoHist == [stage |-> "none", user_id |-> NoUser, role |-> "none",
           pre |-> <<>>, pre_del |-> <<>>, cached |-> FALSE]

AttributeIds == {1, 2}
Readers == {1, 2}
NoCached == [present |-> FALSE, value |-> 0]
IdleWriter == [pc |-> "idle", key |-> 0, out |-> "none", n |-> 0]
IdleReader == [pc |-> "idle", kind |-> "none", key |-> 0, local |-> 0, need |-> 0,
               ok |-> FALSE, result |-> 0]

\* Both caches start empty (CategoryCacheImpl::default, AttributeCacheImpl::default).
\* The requests that run a transaction on their own connection.
Workers == {1, 2}
IdleTxn == [pc |-> "idle", kind |-> "none", acl |-> UnauthorizedAcl, product_id |-> 0,
            base_id |-> 0, payload |-> <<>>, out |-> "none"]
IdleTxns == [w \in Workers |-> IdleTxn]

InitCaches ==
    /\ categories = 0
    /\ category_cache = NoCached
    /\ attributes = [a \in AttributeIds |-> 0]
    /\ attribute_cache = [a \in AttributeIds |-> NoCached]
    /\ writer = IdleWriter
    /\ readers = [r \in Readers |-> IdleReader]
    /\ acked = [categories |-> 0, attributes |-> [a \in AttributeIds |-> 0]]

\* The stores and base products a behaviour starts from: the chain of
\* product 2 is intact, or misses its store, or misses its base product.
StoreRows == {[id |-> 1, user_id |-> 2], [id |-> 2, user_id |-> 1]}
BaseProductRows == {[id |-> 1, store_id |-> 1], [id |-> 2, store_id |-> 2]}
InitProducts == {[id |-> 1, base_product_id |-> 1, is_active |-> TRUE],
                 [id |-> 2, base_product_id |-> 2, is_active |-> TRUE]}
InitProdAttrs == {[id |-> 1, prod_id |-> 1, base_prod_id |-> 1, attr_id |-> 1],
                  [id |-> 2, prod_id |-> 2, base_prod_id |-> 2, attr_id |-> 1]}

InitTables ==
    /\ stores \in {StoreRows, {r \in StoreRows : r.id = 1}}
    /\ base_products \in {BaseProductRows, {r \in BaseProductRows : r.id = 1}}
    /\ products = InitProducts
    /\ prod_attr_values = InitProdAttrs

\* Role tables of at most MaxRoleRows rows, ids handed out in order.
RECURSIVE RoleTables(_)
RoleTables(n) ==
    IF n = 0 THEN {{}}
    ELSE LET smaller == RoleTables(n - 1)
         IN  smaller \cup
             {user_roles_create(t, n, [user_id |-> u, role |-> r]) :
                 t \in {x \in smaller : Cardinality(x) = n - 1},
                 u \in UserIds, r \in StoresRole}

Init ==
    /\ InitTables
    /\ user_roles \in RoleTables(MaxRoleRows)
    /\ next_role_id = Cardinality(user_roles) + 1
    /\ roles_cache = EmptyRolesCache
    /\ req = IdleReq
    /\ last = NoCall
    /\ hist = NoHist
    /\ InitCaches
    /\ txns = IdleTxns

\* ---------------------------------------------------------------- requests
\* A service takes a connection and builds a repository for the caller:
\* ReposFactory::create_*_repo(db_conn, user_id) runs get_acl.
CreateRepo(user_id, conn_ok) ==
    /\ req.pc = "idle"
    /\ LET g == get_acl(roles_cache, user_roles, conn_ok, user_id)
       IN  /\ req' = [pc |-> "repo", user_id |-> user_id, conn_ok |-> conn_ok,
                      acl |-> g.acl, lookup |-> g.lookup]
           /\ roles_cache' = g.cache
    /\ last' = NoCall
    /\ UNCHANGED <<user_roles, next_role_id, stores, base_products, products,
                   prod_attr_values, hist>>
    /\ UNCHANGED cache_vars
    /\ UNCHANGED txn_vars

Returned(op, arg, out) ==
    /\ last' = [op |-> op, arg |-> arg, acl |-> req.acl, out |-> out]
    /\ req' = IdleReq

ProductsFind(product_id_arg) ==
    /\ req.pc = "repo"
    /\ Returned("find", product_id_arg,
                products_find(req.acl, req.conn_ok, db, product_id_arg))
    /\ UNCHANGED <<user_roles, next_role_id, roles_cache, stores, base_products,
                   products, prod_attr_values, hist>>
    /\ UNCHANGED cache_vars
    /\ UNCHANGED txn_vars

ProductsDeactivate(product_id_arg) ==
    /\ req.pc = "repo"
    /\ LET r == products_deactivate(req.acl, req.conn_ok, db, product_id_arg)
       IN  /\ Returned("deactivate", product_id_arg, r.out)
           /\ products' = r.products
    /\ UNCHANGED <<user_roles, next_role_id, roles_cache, stores, base_products,
                   prod_attr_values, hist>>
    /\ UNCHANGED cache_vars
    /\ UNCHANGED txn_vars

ProductAttrsFindAll(product_id_arg) ==
    /\ req.pc = "repo"
    /\ Returned("find_all_attributes", product_id_arg,
                product_attrs_find_all_attributes(req.acl, req.conn_ok, db,
                                                  prod_attr_values, product_id_arg))
    /\ UNCHANGED <<user_roles, next_role_id, roles_cache, stores, base_products,
                   products, prod_attr_values, hist>>
    /\ UNCHANGED cache_vars
    /\ UNCHANGED txn_vars

\* -------------------------------------------------------------- role edits
\* UserRolesRepo::create of the repository built with the roles cache: the
\* row is inserted and the user's cache entry dropped; a failed insert
\* changes nothing.
UserRolesCreate(payload, conn_ok) ==
    /\ next_role_id <= MaxRoleRows
    /\ IF conn_ok
       THEN /\ user_roles' = user_roles_create(user_roles, next_role_id, payload)
            /\ next_role_id' = next_role_id + 1
            /\ roles_cache' = RolesCache_remove(roles_cache, payload.user_id)
            /\ hist' = [stage |-> "granted", user_id |-> payload.user_id,
                        role |-> payload.role,
                        pre |-> list_for_user(user_roles, payload.user_id),
                        pre_del |-> <<>>,
                        cached |-> roles_cache[payload.user_id].present]
       ELSE /\ hist' = NoHist
            /\ UNCHANGED <<user_roles, next_role_id, roles_cache>>
    /\ UNCHANGED <<stores, base_products, products, prod_attr_values, req, last>>
    /\ UNCHANGED cache_vars
    /\ UNCHANGED txn_vars

\* UserRolesRepo::delete of the repository built with the roles cache.
UserRolesDelete(payload, conn_ok) ==
    /\ IF conn_ok
       THEN /\ user_roles' = user_roles_delete(user_roles, payload)
            /\ roles_cache' = RolesCache_remove(roles_cache, payload.user_id)
            /\ hist' = [stage |-> IF /\ hist.stage = "granted"
                                     /\ hist.user_id = payload.user_id
                                     /\ hist.role = payload.role
                                  THEN "roundtrip" ELSE "revoked",
                        user_id |-> payload.user_id,
                        role |-> payload.role,
                        pre |-> IF /\ hist.stage = "granted"
                                   /\ hist.user_id = payload.user_id
                                   /\ hist.role = payload.role
                                THEN hist.pre ELSE <<>>,
                        pre_del |-> list_for_user(user_roles, payload.user_id),
                        cached |-> roles_cache[payload.user_id].present]
       ELSE /\ hist' = NoHist
            /\ UNCHANGED <<user_roles, roles_cache>>
    /\ UNCHANGED <<next_role_id, stores, base_products, products, prod_attr_values,
                   req, last>>
    /\ UNCHANGED cache_vars
    /\ UNCHANGED txn_vars

Payloads == [user_id : UserIds, role : StoresRole]

Next ==
    \/ \E user_id \in UserIds \cup {NoUser}, conn_ok \in BOOLEAN :
            CreateRepo(user_id, conn_ok)
    \/ \E p \in LookupIds : ProductsFind(p)
    \/ \E p \in LookupIds : ProductsDeactivate(p)
    \/ \E p \in LookupIds : ProductAttrsFindAll(p)

Spec == Init /\ [][Next]_vars

InitRoles ==
    /\ stores = StoreRows
    /\ base_products = BaseProductRows
    /\ products = InitProducts
    /\ prod_attr_values = InitProdAttrs
    /\ user_roles = {}
    /\ next_role_id = 1
    /\ roles_cache = EmptyRolesCache
    /\ req = IdleReq
    /\ last = NoCall
    /\ hist = NoHist
    /\ InitCaches
    /\ txns = IdleTxns

NextRoles ==
    \/ \E user_id \in UserIds \cup {NoUser} : CreateRepo(user_id, TRUE)
    \/ \E p \in LookupIds : ProductsFind(p)
    \/ \E payload \in Payloads, conn_ok \in BOOLEAN : UserRolesCreate(payload, conn_ok)
    \/ \E payload \in Payloads, conn_ok \in BOOLEAN : UserRolesDelete(payload, conn_ok)

SpecRoles == InitRoles /\ [][NextRoles]_vars

\* ------------------------------------------------- reference-data caches
\* CategoryCacheImpl and AttributeCacheImpl: each call is one step on the
\* shared structure.
CategoryCache_is_some(cache) == cache.present
CategoryCache_set(cache, value) == [present |-> TRUE, value |-> value]
CategoryCache_clear(cache) == NoCached
AttributeCache_remove(cache, id) == [cache EXCEPT ![id] = NoCached]
\* AttributeCache::get reads through: a hit answers from the entry, a miss
\* reads the row and stores it.
AttributeCache_get(cache, rows, id) ==
    IF cache[id].present
    THEN [value |-> cache[id].value, cache |-> cache]
    ELSE [value |-> rows[id],
          cache |-> [cache EXCEPT ![id] = [present |-> TRUE, value |-> rows[id]]]]

WriterDone(out) == [pc |-> "idle", key |-> 0, out |-> out, n |-> writer.n]
WriterAt(pc, key) == [pc |-> pc, key |-> key, out |-> "none", n |-> writer.n + 1]
CanWrite == writer.pc = "idle" /\ writer.n < MaxWrites

\* CategoriesService::create, inside conn.transaction: the repository inserts
\* the row, which other connections do not see before the commit. A
\* repository error rolls back and returns it.
CategoriesCreate_repo(repo_ok) ==
    /\ CanWrite
    /\ writer' = IF repo_ok THEN WriterAt("create_written", 0)
                  ELSE [WriterDone("Err") EXCEPT !.n = writer.n + 1]
    /\ UNCHANGED <<categories, category_cache, attributes, attribute_cache,
                   readers, acked>>
    /\ UNCHANGED acl_vars
    /\ UNCHANGED txn_vars

\* ... then the closure clears the cache, still inside the transaction ...
CategoriesCreate_clear ==
    /\ writer.pc = "create_written"
    /\ category_cache' = CategoryCache_clear(category_cache)
    /\ writer' = [writer EXCEPT !.pc = "create_cleared"]
    /\ UNCHANGED <<categories, attributes, attribute_cache, readers, acked>>
    /\ UNCHANGED acl_vars
    /\ UNCHANGED txn_vars

\* ... and the transaction commits and the service returns the category.
CategoriesCreate_commit ==
    /\ writer.pc = "create_cleared"
    /\ categories' = categories + 1
    /\ acked' = [acked EXCEPT !.categories = categories + 1]
    /\ writer' = WriterDone("Ok")
    /\ UNCHANGED <<category_cache, attributes, attribute_cache, readers>>
    /\ UNCHANGED acl_vars
    /\ UNCHANGED txn_vars

\* CategoriesService::update: the repository's update commits on its own.
CategoriesUpdate_repo(repo_ok) ==
    /\ CanWrite
    /\ IF repo_ok
       THEN /\ categories' = categories + 1
            /\ writer' = WriterAt("update_written", 0)
       ELSE /\ writer' = [WriterDone("Err") EXCEPT !.n = writer.n + 1]
            /\ UNCHANGED categories
    /\ UNCHANGED <<category_cache, attributes, attribute_cache, readers, acked>>
    /\ UNCHANGED acl_vars
    /\ UNCHANGED txn_vars

\* ... then the cache is cleared and the service returns the category.
CategoriesUpdate_clear ==
    /\ writer.pc = "update_written"
    /\ category_cache' = CategoryCache_clear(category_cache)
    /\ acked' = [acked EXCEPT !.categories = categories]
    /\ writer' = WriterDone("Ok")
    /\ UNCHANGED <<categories, attributes, attribute_cache, readers>>
    /\ UNCHANGED acl_vars
    /\ UNCHANGED txn_vars

\* AttributesService::update: the repository's update commits on its own.
AttributesUpdate_repo(attribute_id, repo_ok) ==
    /\ CanWrite
    /\ IF repo_ok
       THEN /\ attributes' = [attributes EXCEPT ![attribute_id] = @ + 1]
            /\ writer' = WriterAt("attribute_written", attribute_id)
       ELSE /\ writer' = [WriterDone("Err") EXCEPT !.n = writer.n + 1]
            /\ UNCHANGED attributes
    /\ UNCHANGED <<categories, category_cache, attribute_cache, readers, acked>>
    /\ UNCHANGED acl_vars
    /\ UNCHANGED txn_vars

\* ... then the attribute's entry is removed and the service returns.
AttributesUpdate_remove ==
    /\ writer.pc = "attribute_written"
    /\ attribute_cache' = AttributeCache_remove(attribute_cache, writer.key)
    /\ acked' = [acked EXCEPT !.attributes[writer.key] = attributes[writer.key]]
    /\ writer' = WriterDone("Ok")
    /\ UNCHANGED <<categories, category_cache, attributes, readers>>
    /\ UNCHANGED acl_vars
    /\ UNCHANGED txn_vars

ReaderFree(r) == readers[r].pc \in {"idle", "done"}

\* CategoriesService::get_all: the request starts by asking the cache whether
\* it holds a value.
GetAll_is_some(r) ==
    /\ ReaderFree(r)
    /\ readers' = [readers EXCEPT ![r] =
                       [IdleReader EXCEPT
                           !.pc = IF CategoryCache_is_some(category_cache)
                                  THEN "hit" ELSE "miss",
                           !.kind = "categories",
                           !.need = acked.categories]]
    /\ UNCHANGED <<categories, category_cache, attributes, attribute_cache,
                   writer, acked>>
    /\ UNCHANGED acl_vars
    /\ UNCHANGED txn_vars

\* ... on a hit, categories_cache.get() answers; it fails on a cache that was
\* cleared in between.
GetAll_cached(r) ==
    /\ readers[r].pc = "hit"
    /\ readers' = [readers EXCEPT ![r] =
                       [@ EXCEPT !.pc = "done",
                                 !.ok = category_cache.present,
                                 !.result = category_cache.value]]
    /\ UNCHANGED <<categories, category_cache, attributes, attribute_cache,
                   writer, acked>>
    /\ UNCHANGED acl_vars
    /\ UNCHANGED txn_vars

\* ... on a miss, the repository reads the committed categories ...
GetAll_repo(r) ==
    /\ readers[r].pc = "miss"
    /\ readers' = [readers EXCEPT ![r] = [@ EXCEPT !.pc = "fill",
                                                    !.local = categories]]
    /\ UNCHANGED <<categories, category_cache, attributes, attribute_cache,
                   writer, acked>>
    /\ UNCHANGED acl_vars
    /\ UNCHANGED txn_vars

\* ... and what was read is stored in the cache and returned.
GetAll_set(r) ==
    /\ readers[r].pc = "fill"
    /\ category_cache' = CategoryCache_set(category_cache, readers[r].local)
    /\ readers' = [readers EXCEPT ![r] = [@ EXCEPT !.pc = "done",
                                                    !.ok = TRUE,
                                                    !.result = readers[r].local]]
    /\ UNCHANGED <<categories, attributes, attribute_cache, writer, acked>>
    /\ UNCHANGED acl_vars
    /\ UNCHANGED txn_vars

\* AttributesService::get: one call of the cache's read-through get.
AttributesGet(r, attribute_id) ==
    /\ ReaderFree(r)
    /\ LET g == AttributeCache_get(attribute_cache, attributes, attribute_id)
       IN  /\ attribute_cache' = g.cache
           /\ readers' = [readers EXCEPT ![r] =
                              [IdleReader EXCEPT
                                  !.pc = "done",
                                  !.kind = "attribute",
                                  !.key = attribute_id,
                                  !.need = acked.attributes[attribute_id],
                                  !.ok = TRUE,
                                  !.result = g.value]]
    /\ UNCHANGED <<categories, category_cache, attributes, writer, acked>>
    /\ UNCHANGED acl_vars
    /\ UNCHANGED txn_vars

InitCache == InitRoles

NextCache ==
    \/ \E repo_ok \in BOOLEAN : CategoriesCreate_repo(repo_ok)
    \/ CategoriesCreate_clear
    \/ CategoriesCreate_commit
    \/ \E repo_ok \in BOOLEAN : CategoriesUpdate_repo(repo_ok)
    \/ CategoriesUpdate_clear
    \/ \E a \in AttributeIds, repo_ok \in BOOLEAN : AttributesUpdate_repo(a, repo_ok)
    \/ AttributesUpdate_remove
    \/ \E r \in Readers : GetAll_is_some(r)
    \/ \E r \in Readers : GetAll_cached(r)
    \/ \E r \in Readers : GetAll_repo(r)
    \/ \E r \in Readers : GetAll_set(r)
    \/ \E r \in Readers, a \in AttributeIds : AttributesGet(r, a)

SpecCache == InitCache /\ [][NextCache]_vars

\* ------------------------------------------------- repository calls: reads
Counts == {0, 1, 2, 3}

\* Mutant: a read that deactivates what it selected.
ProductsFindMany_deactivating(product_ids) ==
    /\ req.pc = "repo"
    /\ Returned("find_many", product_ids,
                products_find_many(req.acl, req.conn_ok, db, product_ids))
    /\ products' = {[p EXCEPT !.is_active = p.is_active /\ p.id \notin product_ids] :
                        p \in products}
    /\ UNCHANGED <<user_roles, next_role_id, roles_cache, stores, base_products,
                   prod_attr_values, hist>>
    /\ UNCHANGED cache_vars
    /\ UNCHANGED txn_vars

ProductsFindMany(product_ids) ==
    /\ req.pc = "repo"
    /\ Returned("find_many", product_ids,
                products_find_many(req.acl, req.conn_ok, db, product_ids))
    /\ UNCHANGED <<user_roles, next_role_id, roles_cache, stores, base_products,
                   products, prod_attr_values, hist>>
    /\ UNCHANGED cache_vars
    /\ UNCHANGED txn_vars

ProductsList(from, count) ==
    /\ req.pc = "repo"
    /\ Returned("list", [from |-> from, count |-> count],
                products_list(req.acl, req.conn_ok, db, from, count))
    /\ UNCHANGED <<user_roles, next_role_id, roles_cache, stores, base_products,
                   products, prod_attr_values, hist>>
    /\ UNCHANGED cache_vars
    /\ UNCHANGED txn_vars

ProductsFindWithBaseId(base_id_arg) ==
    /\ req.pc = "repo"
    /\ Returned("find_with_base_id", base_id_arg,
                products_find_with_base_id(req.acl, req.conn_ok, db, base_id_arg))
    /\ UNCHANGED <<user_roles, next_role_id, roles_cache, stores, base_products,
                   products, prod_attr_values, hist>>
    /\ UNCHANGED cache_vars
    /\ UNCHANGED txn_vars

\* Products as the repository stores them, with the columns an update sets.
ProductRows == {[id |-> 1, base_product_id |-> 1, is_active |-> TRUE,
                 vendor_code |-> "a", price |-> 1, currency |-> 1],
                [id |-> 2, base_product_id |-> 2, is_active |-> TRUE,
                 vendor_code |-> "b", price |-> 1, currency |-> 1]}

\* Role tables in which each user holds one role or none.
OneRoleTables ==
    {{[id |-> u, user_id |-> u, role |-> f[u]] : u \in {v \in UserIds : f[v] # "none"}} :
        f \in [UserIds -> StoresRole \cup {"none"}]}

InitRepo ==
    /\ stores = StoreRows
    /\ base_products \in {BaseProductRows, {r \in BaseProductRows : r.id = 1}}
    /\ products \in {ProductRows,
                     {[p EXCEPT !.base_product_id = 1] : p \in ProductRows}}
    /\ prod_attr_values = InitProdAttrs
    /\ user_roles \in OneRoleTables
    /\ next_role_id = Cardinality(UserIds) + 1
    /\ roles_cache = EmptyRolesCache
    /\ req = IdleReq
    /\ last = NoCall
    /\ hist = NoHist
    /\ InitCaches
    /\ txns = IdleTxns

NextRepo ==
    \/ \E user_id \in UserIds \cup {NoUser}, conn_ok \in BOOLEAN :
            CreateRepo(user_id, conn_ok)
    \/ \E product_ids \in SUBSET LookupIds : ProductsFindMany(product_ids)
    \/ \E from \in LookupIds, count \in Counts : ProductsList(from, count)
    \/ \E b \in BaseProductIds : ProductsFindWithBaseId(b)
    \/ \E p \in LookupIds : ProductAttrsFindAll(p)
    \/ \E p \in LookupIds : ProductsDeactivate(p)

SpecRepo == InitRepo /\ [][NextRepo]_vars

\* ------------------------------------------------------- the check alone
\* acl::check as a repository calls it, on any resource, action and entity.
AclCheck(resource, action, obj) ==
    /\ req.pc = "repo"
    /\ Returned("check", [resource |-> resource, action |-> action],
                LET allowed == IF resource = "ProductAttrs"
                               THEN ProductAttrsScope(db, req.conn_ok, req.acl,
                                                      resource, action, obj)
                               ELSE ProductsScope(db, req.conn_ok, req.acl,
                                                  resource, action, obj)
                IN  Outcome(IF allowed THEN "Allowed" ELSE "Denied", obj # {},
                            IF allowed THEN "pass" ELSE "fail", obj))
    /\ UNCHANGED <<user_roles, next_role_id, roles_cache, stores, base_products,
                   products, prod_attr_values, hist>>
    /\ UNCHANGED cache_vars
    /\ UNCHANGED txn_vars

CheckedEntities(resource) ==
    CASE resource = "Products" -> {{p} : p \in products} \cup {{}}
      [] resource = "ProductAttrs" -> {{a} : a \in prod_attr_values} \cup {{}}
      [] OTHER -> {{}}

InitCheck ==
    /\ InitTables
    /\ user_roles \in OneRoleTables
    /\ next_role_id = Cardinality(UserIds) + 1
    /\ roles_cache = EmptyRolesCache
    /\ req = IdleReq
    /\ last = NoCall
    /\ hist = NoHist
    /\ InitCaches
    /\ txns = IdleTxns

NextCheck ==
    \/ \E user_id \in UserIds \cup {NoUser} : CreateRepo(user_id, TRUE)
    \/ \E resource \in Resource, action \in Action :
            \E obj \in CheckedEntities(resource) : AclCheck(resource, action, obj)

SpecCheck == InitCheck /\ [][NextCheck]_vars

\* --------------------------------------------------- writes of a service
\* The serial of a table: one above the largest id it holds.
NextId(rows) ==
    IF rows = {} THEN 1
    ELSE (CHOOSE r \in rows : \A o \in rows : r.id >= o.id).id + 1

\* NewProduct as create_product receives it: base_product_id 0 is None.
\* attributes is the Vec<AttrValue>, one attribute id per element; every
\* value of the model is the same string.
NewProducts ==
    [base_product_id : {0} \cup LookupIds, vendor_code : {"a", "c"}, price : {1},
     currency : {1}, attributes : {<<>>, <<1, 2>>, <<3>>}]

\* What the repositories that are not part of this source tree answer to
\* their own access check.
OtherRepos == {"pass", "base_products_denied", "stores_denied"}

\* BaseProductsRepo::find
base_products_find(conn_ok, other, t, base_product_id) ==
    IF ~conn_ok THEN Outcome("DbError", FALSE, "none", {})
    ELSE LET hit == {b \in t.base_products : b.id = base_product_id}
         IN  IF hit = {} THEN Outcome("None", FALSE, "none", {})
             ELSE IF other = "base_products_denied"
             THEN Outcome("Denied", TRUE, "fail", {})
             ELSE Outcome("Some", TRUE, "pass", hit)

\* StoresRepo::vendor_code_exists: None without the store, else whether a
\* product of the store carries the vendor code.
vendor_code_exists(t, store_id, vendor_code) ==
    \E p \in t.products : \E b \in t.base_products :
        b.id = p.base_product_id /\ b.store_id = store_id /\ p.vendor_code = vendor_code

\* Mutant: a vendor code that exists is let through.
check_vendor_code_unchecked(conn_ok, other, t, store_id, vendor_code) ==
    IF ~conn_ok THEN Outcome("DbError", FALSE, "none", {})
    ELSE IF \A st \in t.stores : st.id # store_id
    THEN Outcome("NotFound", FALSE, "none", {})
    ELSE IF other = "stores_denied" THEN Outcome("Denied", TRUE, "fail", {})
    ELSE Outcome("Ok", TRUE, "pass", {})

\* check_vendor_code
check_vendor_code(conn_ok, other, t, store_id, vendor_code) ==
    IF ~conn_ok THEN Outcome("DbError", FALSE, "none", {})
    ELSE IF \A st \in t.stores : st.id # store_id
    THEN Outcome("NotFound", FALSE, "none", {})
    ELSE IF other = "stores_denied" THEN Outcome("Denied", TRUE, "fail", {})
    ELSE IF vendor_code_exists(t, store_id, vendor_code)
    THEN Outcome("Validate", TRUE, "pass", {})
    ELSE Outcome("Ok", TRUE, "pass", {})

\* ProductsRepoImpl::create: the row is inserted, then checked for Create.
products_create(acl, conn_ok, scope_ok, t, payload) ==
    IF ~conn_ok THEN [out |-> Outcome("DbError", FALSE, "none", {}), products |-> t.products]
    ELSE LET product == [id |-> NextId(t.products),
                         base_product_id |-> payload.base_product_id,
                         is_active |-> TRUE,
                         vendor_code |-> payload.vendor_code,
                         price |-> payload.price,
                         currency |-> payload.currency]
             inserted == t.products \cup {product}
         IN  IF ProductsScope([t EXCEPT !.products = inserted], scope_ok, acl,
                              "Products", "Create", {product})
             THEN [out |-> Outcome("Ok", TRUE, "pass", {product}), products |-> inserted]
             ELSE [out |-> Outcome("Denied", TRUE, "fail", {}), products |-> inserted]

\* Mutant: the row takes the product id as its base product id.
product_attrs_create_base_of_prod(acl, conn_ok, t, attr_rows, payload) ==
    IF ~conn_ok
    THEN [out |-> Outcome("DbError", FALSE, "none", {}), prod_attr_values |-> attr_rows]
    ELSE LET prod_attr == [id |-> NextId(attr_rows), prod_id |-> payload.prod_id,
                           base_prod_id |-> payload.prod_id,
                           attr_id |-> payload.attr_id]
             inserted == attr_rows \cup {prod_attr}
         IN  IF ProductAttrsScope(t, conn_ok, acl, "ProductAttrs", "Create", {prod_attr})
             THEN [out |-> Outcome("Ok", TRUE, "pass", {prod_attr}),
                   prod_attr_values |-> inserted]
             ELSE [out |-> Outcome("Denied", TRUE, "fail", {}),
                   prod_attr_values |-> inserted]

\* ProductAttrsRepoImpl::create: the row is inserted, then checked for Create.
product_attrs_create(acl, conn_ok, t, attr_rows, payload) ==
    IF ~conn_ok
    THEN [out |-> Outcome("DbError", FALSE, "none", {}), prod_attr_values |-> attr_rows]
    ELSE LET prod_attr == [id |-> NextId(attr_rows), prod_id |-> payload.prod_id,
                           base_prod_id |-> payload.base_prod_id,
                           attr_id |-> payload.attr_id]
             inserted == attr_rows \cup {prod_attr}
         IN  IF ProductAttrsScope(t, conn_ok, acl, "ProductAttrs", "Create", {prod_attr})
             THEN [out |-> Outcome("Ok", TRUE, "pass", {prod_attr}),
                   prod_attr_values |-> inserted]
             ELSE [out |-> Outcome("Denied", TRUE, "fail", {}),
                   prod_attr_values |-> inserted]

\* AttributesRepoImpl::find: the row is read, then checked for Read.
attributes_find(acl, conn_ok, t, attr_id) ==
    IF ~conn_ok THEN Outcome("DbError", FALSE, "none", {})
    ELSE IF attr_id \notin AttributeIds THEN Outcome("NotFound", FALSE, "none", {})
    ELSE IF check(acl, "Attributes", "Read",
                  [repo |-> "products", t |-> t, conn_ok |-> conn_ok], {})
    THEN Outcome("Some", TRUE, "pass", {attr_id})
    ELSE Outcome("Denied", TRUE, "fail", {})

\* check_attributes_values_exist: some product of the base product carries
\* every attribute value of the payload.
check_attributes_values_exist(base_attrs, attributes_values) ==
    \E q \in {a.prod_id : a \in base_attrs} :
        \A i \in DOMAIN attributes_values :
            \E a \in base_attrs : a.prod_id = q /\ a.attr_id = attributes_values[i]

\* The loop of create_product_attributes_values from its i-th element.
RECURSIVE create_values_from(_, _, _, _, _, _, _, _)
create_values_from(i, acl, conn_ok, t, attr_rows, product_id, base_id, attributes_values) ==
    IF i > Len(attributes_values)
    THEN [out |-> Outcome("Ok", FALSE, "none", {}), prod_attr_values |-> attr_rows]
    ELSE LET f == attributes_find(acl, conn_ok, t, attributes_values[i])
         IN  IF f.result # "Some" THEN [out |-> f, prod_attr_values |-> attr_rows]
             ELSE LET c == product_attrs_create(acl, conn_ok, t, attr_rows,
                               [prod_id |-> product_id, base_prod_id |-> base_id,
                                attr_id |-> attributes_values[i]])
                  IN  IF c.out.result # "Ok" THEN c
                      ELSE create_values_from(i + 1, acl, conn_ok, t, c.prod_attr_values,
                                              product_id, base_id, attributes_values)

\* Mutant: the old attribute values of the product are kept.
create_product_attributes_values_keeping(acl, fail_at, n, t, attr_rows, product_id, base_id, attributes_values) ==
    IF ~ConnAt(n, fail_at)
    THEN [out |-> Outcome("DbError", FALSE, "none", {}), prod_attr_values |-> attr_rows]
    ELSE IF check_attributes_values_exist(
                {a \in attr_rows : a.base_prod_id = base_id /\ a.prod_id # product_id},
                attributes_values)
    THEN [out |-> Outcome("Validate", FALSE, "none", {}), prod_attr_values |-> attr_rows]
    ELSE create_values_from(1, acl, ConnAt(n + 1, fail_at), t, attr_rows,
                            product_id, base_id, attributes_values)

\* create_product_attributes_values: n is the number of its first query.
create_product_attributes_values(acl, fail_at, n, t, attr_rows, product_id, base_id, attributes_values) ==
    LET d == product_attrs_delete_all_attributes(acl, ConnAt(n, fail_at), ConnAt(n, fail_at),
                                                 t, attr_rows, product_id)
    IN  IF d.out.result # "Rows" THEN d
        ELSE IF check_attributes_values_exist(
                    {a \in d.prod_attr_values : a.base_prod_id = base_id},
                    attributes_values)
        THEN [out |-> Outcome("Validate", FALSE, "none", {}),
              prod_attr_values |-> d.prod_attr_values]
        ELSE create_values_from(1, acl, ConnAt(n + 1, fail_at), t, d.prod_attr_values,
                                product_id, base_id, attributes_values)

\* The closure of ProductsService::create_product.
create_product_closure(acl, fail_at, other, t, payload) ==
    LET unchanged(out) == [out |-> out, products |-> t.products,
                           prod_attr_values |-> t.prod_attr_values]
    IN  IF payload.base_product_id = 0
        THEN unchanged(Outcome("NotFound", FALSE, "none", {}))
        ELSE
        LET b == base_products_find(ConnAt(1, fail_at), other, t, payload.base_product_id)
        IN  IF b.result = "None" THEN unchanged(Outcome("NotFound", FALSE, "none", {}))
            ELSE IF b.result # "Some" THEN unchanged(b)
            ELSE
            LET base_product == CHOOSE r \in b.rows : TRUE
                v == check_vendor_code(ConnAt(2, fail_at), other, t,
                                       base_product.store_id, payload.vendor_code)
            IN  IF v.result # "Ok" THEN unchanged(v)
                ELSE
                LET c == products_create(acl, ConnAt(3, fail_at), ConnAt(4, fail_at), t, payload)
                IN  IF c.out.result # "Ok"
                    THEN [out |-> c.out, products |-> c.products,
                          prod_attr_values |-> t.prod_attr_values]
                    ELSE
                    LET product == CHOOSE r \in c.out.rows : TRUE
                        a == create_product_attributes_values(
                                 acl, fail_at, 5, [t EXCEPT !.products = c.products],
                                 t.prod_attr_values, product.id, base_product.id,
                                 payload.attributes)
                    IN  IF a.out.result # "Ok"
                        THEN [out |-> a.out, products |-> c.products,
                              prod_attr_values |-> a.prod_attr_values]
                        ELSE [out |-> c.out, products |-> c.products,
                              prod_attr_values |-> a.prod_attr_values]

\* UpdateProductWithAttributes: product and attributes are Options; a field
\* of UpdateProduct that is None is "none" (vendor_code) or 0 (price).
UpdateProducts ==
    [product : {[present |-> FALSE, vendor_code |-> "none", price |-> 0],
                [present |-> TRUE, vendor_code |-> "c", price |-> 2],
                [present |-> TRUE, vendor_code |-> "none", price |-> 0]},
     attributes : {[present |-> FALSE, values |-> <<>>],
                   [present |-> TRUE, values |-> <<1, 2>>],
                   [present |-> TRUE, values |-> <<3>>]}]

\* diesel::update(filter).set(&payload): the fields that are Some are set.
set_changes(product, payload) ==
    [product EXCEPT
        !.vendor_code = IF payload.vendor_code = "none" THEN @ ELSE payload.vendor_code,
        !.price = IF payload.price = 0 THEN @ ELSE payload.price]

\* Mutant: the row is written before it is checked.
products_update_then_check(acl, conn_ok, scope_ok, t, product_id_arg, payload) ==
    IF ~conn_ok THEN [out |-> Outcome("DbError", FALSE, "none", {}), products |-> t.products]
    ELSE LET hit == {p \in t.products : p.id = product_id_arg}
             active == {p \in hit : p.is_active}
             updated == {set_changes(p, payload) : p \in active}
             written == (t.products \ active) \cup updated
         IN  IF hit = {}
             THEN [out |-> Outcome("NotFound", FALSE, "none", {}), products |-> t.products]
             ELSE IF ~ProductsScope(t, scope_ok, acl, "Products", "Update", hit)
             THEN [out |-> Outcome("Denied", TRUE, "fail", {}), products |-> written]
             ELSE IF payload.vendor_code = "none" /\ payload.price = 0
             THEN [out |-> Outcome("DbError", TRUE, "pass", {}), products |-> t.products]
             ELSE IF active = {}
             THEN [out |-> Outcome("NotFound", TRUE, "pass", {}), products |-> t.products]
             ELSE [out |-> Outcome("Ok", TRUE, "pass", updated), products |-> written]

\* ProductsRepoImpl::update: the row is read (active or not), checked for
\* Update, then the active row is updated; an update that sets nothing and
\* get_result on no row are Err.
products_update(acl, conn_ok, scope_ok, t, product_id_arg, payload) ==
    IF ~conn_ok THEN [out |-> Outcome("DbError", FALSE, "none", {}), products |-> t.products]
    ELSE LET hit == {p \in t.products : p.id = product_id_arg}
             active == {p \in hit : p.is_active}
         IN  IF hit = {}
             THEN [out |-> Outcome("NotFound", FALSE, "none", {}), products |-> t.products]
             ELSE IF ~ProductsScope(t, scope_ok, acl, "Products", "Update", hit)
             THEN [out |-> Outcome("Denied", TRUE, "fail", {}), products |-> t.products]
             ELSE IF payload.vendor_code = "none" /\ payload.price = 0
             THEN [out |-> Outcome("DbError", TRUE, "pass", {}), products |-> t.products]
             ELSE IF active = {}
             THEN [out |-> Outcome("NotFound", TRUE, "pass", {}), products |-> t.products]
             ELSE LET updated == {set_changes(p, payload) : p \in active}
                  IN  [out |-> Outcome("Ok", TRUE, "pass", updated),
                       products |-> (t.products \ active) \cup updated]

\* UpdateProduct::reset_moderation_status_needed
reset_moderation_status_needed(payload) ==
    payload.vendor_code # "none" \/ payload.price # 0

\* BaseProductsRepo::update, which sets the moderation status only.
base_products_update(conn_ok, other, t, base_product_id) ==
    IF ~conn_ok THEN Outcome("DbError", FALSE, "none", {})
    ELSE IF \A b \in t.base_products : b.id # base_product_id
    THEN Outcome("NotFound", FALSE, "none", {})
    ELSE IF other = "base_products_denied" THEN Outcome("Denied", TRUE, "fail", {})
    ELSE Outcome("Ok", TRUE, "pass", {})

\* if let Some(vendor_code) = &product.vendor_code { .. } of update_product
update_vendor_code_check(fail_at, other, t, original_product, payload) ==
    IF payload.vendor_code = "none" THEN Outcome("Ok", FALSE, "none", {})
    ELSE LET b == base_products_find(ConnAt(2, fail_at), other, t,
                                     original_product.base_product_id)
         IN  IF b.result = "None" THEN Outcome("NotFound", FALSE, "none", {})
             ELSE IF b.result # "Some" THEN b
             ELSE IF original_product.vendor_code = payload.vendor_code
             THEN Outcome("Ok", FALSE, "none", {})
             ELSE check_vendor_code(ConnAt(3, fail_at), other, t,
                                    (CHOOSE r \in b.rows : TRUE).store_id,
                                    payload.vendor_code)

\* The product branch of update_product: Some(product) of the payload.
update_product_row(acl, fail_at, other, t, original_product, payload) ==
    LET v == update_vendor_code_check(fail_at, other, t, original_product, payload)
    IN  IF v.result # "Ok" THEN [out |-> v, products |-> t.products]
        ELSE LET u == products_update(acl, ConnAt(4, fail_at), ConnAt(4, fail_at), t,
                                      original_product.id, payload)
             IN  IF u.out.result # "Ok" \/ ~reset_moderation_status_needed(payload) THEN u
                 ELSE LET m == base_products_update(ConnAt(5, fail_at), other, t,
                                                    original_product.base_product_id)
                      IN  IF m.result # "Ok" THEN [out |-> m, products |-> u.products]
                          ELSE u

\* The closure of ProductsService::update_product.
update_product_closure(acl, fail_at, other, t, product_id, payload) ==
    LET f == products_find(acl, ConnAt(1, fail_at), t, product_id)
    IN  IF f.result # "Some"
        THEN [out |-> IF f.result = "None" THEN Outcome("NotFound", FALSE, "none", {}) ELSE f,
              products |-> t.products, prod_attr_values |-> t.prod_attr_values]
        ELSE
        LET original_product == CHOOSE r \in f.rows : TRUE
            u == IF payload.product.present
                 THEN update_product_row(acl, fail_at, other, t, original_product,
                                         payload.product)
                 ELSE [out |-> Outcome("Ok", TRUE, "pass", {original_product}),
                       products |-> t.products]
        IN  IF u.out.result # "Ok"
            THEN [out |-> u.out, products |-> u.products,
                  prod_attr_values |-> t.prod_attr_values]
            ELSE IF ~payload.attributes.present
            THEN [out |-> u.out, products |-> u.products,
                  prod_attr_values |-> t.prod_attr_values]
            ELSE
            LET product == CHOOSE r \in u.out.rows : TRUE
                a == create_product_attributes_values(
                         acl, fail_at, 6, [t EXCEPT !.products = u.products],
                         t.prod_attr_values, product.id, product.base_product_id,
                         payload.attributes.values)
            IN  IF a.out.result # "Ok"
                THEN [out |-> a.out, products |-> u.products,
                      prod_attr_values |-> a.prod_attr_values]
                ELSE [out |-> u.out, products |-> u.products,
                      prod_attr_values |-> a.prod_attr_values]

\* ------------------------------------------------ writes of the repositories
\* ProductAttrsRepoImpl::update: the first row of (prod_id, attr_id) is read,
\* checked for Update, then every row of (prod_id, attr_id) is set.
product_attrs_update(acl, conn_ok, t, attr_rows, payload) ==
    IF ~conn_ok
    THEN [out |-> Outcome("DbError", FALSE, "none", {}), prod_attr_values |-> attr_rows]
    ELSE LET hit == {a \in attr_rows : a.prod_id = payload.prod_id
                                        /\ a.attr_id = payload.attr_id}
         IN  IF hit = {}
             THEN [out |-> Outcome("NotFound", FALSE, "none", {}),
                   prod_attr_values |-> attr_rows]
             ELSE LET prod_attr == CHOOSE a \in hit : \A o \in hit : a.id <= o.id
                      updated == {[a EXCEPT !.value = payload.value] : a \in hit}
                  IN  IF ~ProductAttrsScope(t, conn_ok, acl, "ProductAttrs", "Update",
                                            {prod_attr})
                      THEN [out |-> Outcome("Denied", TRUE, "fail", {}),
                            prod_attr_values |-> attr_rows]
                      ELSE [out |-> Outcome("Ok", TRUE, "pass", updated),
                            prod_attr_values |-> (attr_rows \ hit) \cup updated]

\* acl::check(&*self.acl, &Resource::Attributes, &action, &[], Some(self.db_conn))
attributes_check(acl, conn_ok, t, action) ==
    check(acl, "Attributes", action,
          [repo |-> "products", db |-> t, conn_ok |-> conn_ok], {})

\* AttributesRepoImpl::create: the check comes first, then the insert.
attributes_create(acl, conn_ok, t, attrs) ==
    IF ~attributes_check(acl, conn_ok, t, "Create")
    THEN [out |-> Outcome("Denied", FALSE, "fail", {}), attributes |-> attrs]
    ELSE IF ~conn_ok
    THEN [out |-> Outcome("DbError", FALSE, "pass", {}), attributes |-> attrs]
    ELSE LET new_id == (CHOOSE a \in DOMAIN attrs : \A o \in DOMAIN attrs : a >= o) + 1
         IN  [out |-> Outcome("Ok", FALSE, "pass", {new_id}),
              attributes |-> [a \in DOMAIN attrs \cup {new_id} |->
                                 IF a = new_id THEN 0 ELSE attrs[a]]]

\* AttributesRepoImpl::update: the row is read, the check follows, then the
\* update.
attributes_update(acl, conn_ok, t, attrs, attribute_id_arg) ==
    IF ~conn_ok THEN [out |-> Outcome("DbError", FALSE, "none", {}), attributes |-> attrs]
    ELSE IF attribute_id_arg \notin DOMAIN attrs
    THEN [out |-> Outcome("NotFound", FALSE, "none", {}), attributes |-> attrs]
    ELSE IF ~attributes_check(acl, conn_ok, t, "Update")
    THEN [out |-> Outcome("Denied", TRUE, "fail", {}), attributes |-> attrs]
    ELSE [out |-> Outcome("Ok", TRUE, "pass", {attribute_id_arg}),
          attributes |-> [attrs EXCEPT ![attribute_id_arg] = @ + 1]]

\* ------------------------------------------------------- service requests
tables == [stores |-> stores, base_products |-> base_products,
           products |-> products, prod_attr_values |-> prod_attr_values]

\* A request whose connection never worked fails at its first query.
FailAt(fail_at) == IF req.conn_ok THEN fail_at ELSE 1

\* ProductsService::deactivate_product
DeactivateProduct(product_id, fail_at) ==
    /\ req.pc = "repo"
    /\ LET t == Transaction(tables,
                            deactivate_product_closure(req.acl, FailAt(fail_at),
                                                       tables, product_id),
                            FailAt(fail_at))
       IN  /\ Returned("deactivate_product", product_id, t.out)
           /\ products' = t.products
           /\ prod_attr_values' = t.prod_attr_values
    /\ UNCHANGED <<user_roles, next_role_id, roles_cache, stores, base_products, hist>>
    /\ UNCHANGED cache_vars
    /\ UNCHANGED txn_vars

\* What goes wrong in a service call: a repository outside this source tree
\* denies, or the connection is lost at a fail point, or nothing.
ServiceFaults ==
    [other : OtherRepos, fail_at : {0}] \cup [other : {"pass"}, fail_at : FailPoints]

\* ProductsService::create_product
CreateProduct(payload, other, fail_at) ==
    /\ req.pc = "repo"
    /\ Cardinality(products) < MaxProducts
    /\ LET t == Transaction(tables,
                            create_product_closure(req.acl, FailAt(fail_at), other,
                                                   tables, payload),
                            FailAt(fail_at))
       IN  /\ Returned("create_product",
                       [payload |-> payload, other |-> other, fail_at |-> FailAt(fail_at)],
                       t.out)
           /\ products' = t.products
           /\ prod_attr_values' = t.prod_attr_values
    /\ UNCHANGED <<user_roles, next_role_id, roles_cache, stores, base_products, hist>>
    /\ UNCHANGED cache_vars
    /\ UNCHANGED txn_vars

\* ProductsService::update_product
UpdateProduct(product_id, payload, other, fail_at) ==
    /\ req.pc = "repo"
    /\ NextId(prod_attr_values) <= MaxAttrId + 1
    /\ LET t == Transaction(tables,
                            update_product_closure(req.acl, FailAt(fail_at), other,
                                                   tables, product_id, payload),
                            FailAt(fail_at))
       IN  /\ Returned("update_product",
                       [product_id |-> product_id, payload |-> payload],
                       t.out)
           /\ products' = t.products
           /\ prod_attr_values' = t.prod_attr_values
    /\ UNCHANGED <<user_roles, next_role_id, roles_cache, stores, base_products, hist>>
    /\ UNCHANGED cache_vars
    /\ UNCHANGED txn_vars

\* The role tables of the service requests: two store owners, or a
\* superuser and a moderator.
ServiceRoleTables ==
    {{[id |-> 1, user_id |-> 1, role |-> "User"],
      [id |-> 2, user_id |-> 2, role |-> "User"]},
     {[id |-> 1, user_id |-> 1, role |-> "Superuser"],
      [id |-> 2, user_id |-> 2, role |-> "Moderator"]}}

InitService ==
    /\ stores \in {StoreRows, {r \in StoreRows : r.id = 1}}
    /\ base_products \in {BaseProductRows, {r \in BaseProductRows : r.id = 1}}
    /\ stores = StoreRows \/ base_products = BaseProductRows
    /\ products = ProductRows
    /\ prod_attr_values = InitProdAttrs
    /\ user_roles \in ServiceRoleTables
    /\ next_role_id = Cardinality(UserIds) + 1
    /\ roles_cache = EmptyRolesCache
    /\ req = IdleReq
    /\ last = NoCall
    /\ hist = NoHist
    /\ InitCaches
    /\ txns = IdleTxns

NextService ==
    \/ \E user_id \in UserIds \cup {NoUser}, conn_ok \in BOOLEAN :
            CreateRepo(user_id, conn_ok)
    \/ \E p \in LookupIds, fail_at \in FailPoints : DeactivateProduct(p, fail_at)
    \/ \E payload \in NewProducts, s \in ServiceFaults :
            CreateProduct(payload, s.other, s.fail_at)

SpecService == InitService /\ [][NextService]_vars

\* ------------------------------------------------------- repository writes
ProductsUpdate(product_id_arg, payload) ==
    /\ req.pc = "repo"
    /\ LET r == products_update(req.acl, req.conn_ok, req.conn_ok, db,
                                product_id_arg, payload)
       IN  /\ Returned("update", [product_id |-> product_id_arg, payload |-> payload],
                       r.out)
           /\ products' = r.products
    /\ UNCHANGED <<user_roles, next_role_id, roles_cache, stores, base_products,
                   prod_attr_values, hist>>
    /\ UNCHANGED cache_vars
    /\ UNCHANGED txn_vars

\* UpdateProdAttr: the row of (prod_id, attr_id) gets the value.
UpdateProdAttrs == [prod_id : LookupIds, attr_id : {1}, value : {"w"}]

ProductAttrsUpdate(payload) ==
    /\ req.pc = "repo"
    /\ LET r == product_attrs_update(req.acl, req.conn_ok, db, prod_attr_values, payload)
       IN  /\ Returned("update_prod_attr", payload, r.out)
           /\ prod_attr_values' = r.prod_attr_values
    /\ UNCHANGED <<user_roles, next_role_id, roles_cache, stores, base_products,
                   products, hist>>
    /\ UNCHANGED cache_vars
    /\ UNCHANGED txn_vars

RECURSIVE SumOf(_)
SumOf(f) ==
    IF DOMAIN f = {} THEN 0
    ELSE LET a == CHOOSE x \in DOMAIN f : TRUE
         IN  f[a] + SumOf([x \in DOMAIN f \ {a} |-> f[x]])

\* Writes the attributes table has taken: its updates and its inserts.
AttrWrites == SumOf(attributes) + Cardinality(DOMAIN attributes \ AttributeIds)

AttributesCreate ==
    /\ req.pc = "repo"
    /\ AttrWrites < MaxAttrWrites
    /\ LET r == attributes_create(req.acl, req.conn_ok, db, attributes)
       IN  /\ Returned("create_attribute", 0, r.out)
           /\ attributes' = r.attributes
    /\ UNCHANGED <<user_roles, next_role_id, roles_cache, stores, base_products,
                   products, prod_attr_values, hist>>
    /\ UNCHANGED <<categories, category_cache, attribute_cache, writer, readers, acked>>
    /\ UNCHANGED txn_vars

AttributesUpdate(attribute_id_arg) ==
    /\ req.pc = "repo"
    /\ AttrWrites < MaxAttrWrites
    /\ LET r == attributes_update(req.acl, req.conn_ok, db, attributes, attribute_id_arg)
       IN  /\ Returned("update_attribute", attribute_id_arg, r.out)
           /\ attributes' = r.attributes
    /\ UNCHANGED <<user_roles, next_role_id, roles_cache, stores, base_products,
                   products, prod_attr_values, hist>>
    /\ UNCHANGED <<categories, category_cache, attribute_cache, writer, readers, acked>>
    /\ UNCHANGED txn_vars

\* Attribute values with the column an update sets.
ProdAttrRows == {[id |-> 1, prod_id |-> 1, base_prod_id |-> 1, attr_id |-> 1, value |-> "v"],
                 [id |-> 2, prod_id |-> 2, base_prod_id |-> 2, attr_id |-> 1, value |-> "v"]}

InitWrite ==
    /\ stores = StoreRows
    /\ base_products \in {BaseProductRows, {r \in BaseProductRows : r.id = 1}}
    /\ products = ProductRows
    /\ prod_attr_values = ProdAttrRows
    /\ user_roles \in ServiceRoleTables
    /\ next_role_id = Cardinality(UserIds) + 1
    /\ roles_cache = EmptyRolesCache
    /\ req = IdleReq
    /\ last = NoCall
    /\ hist = NoHist
    /\ InitCaches
    /\ txns = IdleTxns

NextWrite ==
    \/ \E user_id \in UserIds \cup {NoUser}, conn_ok \in BOOLEAN :
            CreateRepo(user_id, conn_ok)
    \/ \E p \in LookupIds,
          payload \in {q \in {u.product : u \in UpdateProducts} : q.present} :
            ProductsUpdate(p, payload)
    \/ \E p \in LookupIds : ProductsDeactivate(p)
    \/ \E payload \in UpdateProdAttrs : ProductAttrsUpdate(payload)
    \/ AttributesCreate
    \/ \E a \in AttributeIds \cup {3} : AttributesUpdate(a)

SpecWrite == InitWrite /\ [][NextWrite]_vars

\* ------------------------------------------- the whole products repository
\* ProductsRepoImpl::create, called outside a transaction; the new id stays
\* among the ids a caller asks for.
ProductsCreate(payload) ==
    /\ req.pc = "repo"
    /\ NextId(products) \in LookupIds
    /\ LET r == products_create(req.acl, req.conn_ok, req.conn_ok, db, payload)
       IN  /\ Returned("create", payload, r.out)
           /\ products' = r.products
    /\ UNCHANGED <<user_roles, next_role_id, roles_cache, stores, base_products,
                   prod_attr_values, hist>>
    /\ UNCHANGED cache_vars
    /\ UNCHANGED txn_vars

ProductsUpdateCurrency(currency_arg, base_id_arg) ==
    /\ req.pc = "repo"
    /\ LET r == products_update_currency(req.acl, req.conn_ok, db, currency_arg, base_id_arg)
       IN  /\ Returned("update_currency",
                       [currency |-> currency_arg, base_product_id |-> base_id_arg,
                        count |-> r.count],
                       r.out)
           /\ products' = r.products
    /\ UNCHANGED <<user_roles, next_role_id, roles_cache, stores, base_products,
                   prod_attr_values, hist>>
    /\ UNCHANGED cache_vars
    /\ UNCHANGED txn_vars

\* Currencies an update sets; the products start with currency 1.
Currencies == {2}

InitProductsRepo ==
    /\ stores = StoreRows
    /\ base_products = BaseProductRows
    /\ products = ProductRows
    /\ prod_attr_values = InitProdAttrs
    /\ user_roles \in ServiceRoleTables
    /\ next_role_id = Cardinality(UserIds) + 1
    /\ roles_cache = EmptyRolesCache
    /\ req = IdleReq
    /\ last = NoCall
    /\ hist = NoHist
    /\ InitCaches
    /\ txns = IdleTxns

NextProductsRepo ==
    \/ \E user_id \in UserIds \cup {NoUser}, conn_ok \in BOOLEAN :
            CreateRepo(user_id, conn_ok)
    \/ \E p \in LookupIds : ProductsFind(p)
    \/ \E product_ids \in {{1}, LookupIds} : ProductsFindMany(product_ids)
    \/ \E from \in ProductIds, count \in {1, 3} : ProductsList(from, count)
    \/ \E b \in BaseProductIds : ProductsFindWithBaseId(b)
    \/ \E payload \in {n \in NewProducts : /\ n.base_product_id = 1
                                             /\ n.vendor_code = "c"
                                             /\ n.attributes = <<>>} :
            ProductsCreate(payload)
    \/ \E p \in LookupIds,
          payload \in {q \in {u.product : u \in UpdateProducts} : q.price # 0} :
            ProductsUpdate(p, payload)
    \/ \E p \in LookupIds : ProductsDeactivate(p)
    \/ \E c \in Currencies, b \in BaseProductIds : ProductsUpdateCurrency(c, b)

SpecProductsRepo == InitProductsRepo /\ [][NextProductsRepo]_vars

\* --------------------------------------------- transactions side by side
\* Each request runs its closure in a transaction on its own connection; a
\* statement reads what is committed when it runs, and the writes of a
\* transaction reach the tables with its commit. A closure is taken in two
\* steps: its reads up to and including check_vendor_code, and the rest.
TxnFree(w) == txns[w].pc \in {"idle", "done"}
TxnDone(w, out) == [txns EXCEPT ![w] = [@ EXCEPT !.pc = "done", !.out = out]]

\* create_product up to check_vendor_code.
TxnCreate_check(w, payload) ==
    /\ req.pc = "repo"
    /\ req.conn_ok
    /\ TxnFree(w)
    /\ Cardinality(products) < MaxProducts
    /\ LET b == base_products_find(TRUE, "pass", tables, payload.base_product_id)
           v == IF b.result # "Some" THEN Outcome("NotFound", FALSE, "none", {})
                ELSE check_vendor_code(TRUE, "pass", tables,
                                       (CHOOSE r \in b.rows : TRUE).store_id,
                                       payload.vendor_code)
       IN  txns' = [txns EXCEPT ![w] =
                       [pc |-> IF v.result = "Ok" THEN "checked" ELSE "done",
                        kind |-> "create", acl |-> req.acl, product_id |-> 0,
                        base_id |-> payload.base_product_id, payload |-> payload,
                        out |-> IF v.result = "Ok" THEN "none" ELSE v.result]]
    /\ req' = IdleReq
    /\ UNCHANGED <<user_roles, next_role_id, roles_cache, stores, base_products,
                   products, prod_attr_values, last, hist>>
    /\ UNCHANGED cache_vars

\* create_product from products_repo.create to the commit.
TxnCreate_write(w) ==
    /\ txns[w].pc = "checked"
    /\ txns[w].kind = "create"
    /\ LET c == products_create(txns[w].acl, TRUE, TRUE, tables, txns[w].payload)
           a == IF c.out.result # "Ok" THEN [out |-> c.out, prod_attr_values |-> prod_attr_values]
                ELSE create_product_attributes_values(
                         txns[w].acl, 0, 5, [tables EXCEPT !.products = c.products],
                         prod_attr_values, (CHOOSE r \in c.out.rows : TRUE).id,
                         txns[w].base_id, txns[w].payload.attributes)
       IN  IF a.out.result = "Ok"
           THEN /\ products' = c.products
                /\ prod_attr_values' = a.prod_attr_values
                /\ txns' = TxnDone(w, "Ok")
           ELSE /\ UNCHANGED <<products, prod_attr_values>>
                /\ txns' = TxnDone(w, a.out.result)
    /\ UNCHANGED <<user_roles, next_role_id, roles_cache, stores, base_products,
                   req, last, hist>>
    /\ UNCHANGED cache_vars

\* update_product up to check_vendor_code.
TxnUpdate_check(w, product_id, payload) ==
    /\ req.pc = "repo"
    /\ req.conn_ok
    /\ TxnFree(w)
    /\ NextId(prod_attr_values) <= MaxAttrId + 1
    /\ LET f == products_find(req.acl, TRUE, tables, product_id)
           original_product == CHOOSE r \in f.rows : TRUE
           v == IF f.result = "None" THEN Outcome("NotFound", FALSE, "none", {})
                ELSE IF f.result # "Some" THEN f
                ELSE IF ~payload.product.present THEN Outcome("Ok", FALSE, "none", {})
                ELSE update_vendor_code_check(0, "pass", tables, original_product,
                                              payload.product)
       IN  txns' = [txns EXCEPT ![w] =
                       [pc |-> IF v.result = "Ok" THEN "checked" ELSE "done",
                        kind |-> "update", acl |-> req.acl, product_id |-> product_id,
                        base_id |-> IF f.result = "Some"
                                    THEN original_product.base_product_id ELSE 0,
                        payload |-> payload,
                        out |-> IF v.result = "Ok" THEN "none" ELSE v.result]]
    /\ req' = IdleReq
    /\ UNCHANGED <<user_roles, next_role_id, roles_cache, stores, base_products,
                   products, prod_attr_values, last, hist>>
    /\ UNCHANGED cache_vars

\* update_product from products_repo.update to the commit.
TxnUpdate_write(w) ==
    /\ txns[w].pc = "checked"
    /\ txns[w].kind = "update"
    /\ LET original_product == [id |-> txns[w].product_id,
                                base_product_id |-> txns[w].base_id]
           u == IF txns[w].payload.product.present
                THEN products_update(txns[w].acl, TRUE, TRUE, tables, txns[w].product_id,
                                     txns[w].payload.product)
                ELSE [out |-> Outcome("Ok", FALSE, "none", {original_product}),
                      products |-> products]
           product == CHOOSE r \in u.out.rows : TRUE
           m == IF u.out.result # "Ok" THEN u.out
                ELSE IF /\ txns[w].payload.product.present
                        /\ reset_moderation_status_needed(txns[w].payload.product)
                THEN base_products_update(TRUE, "pass", tables, product.base_product_id)
                ELSE Outcome("Ok", FALSE, "none", {})
           a == IF m.result # "Ok" \/ ~txns[w].payload.attributes.present
                THEN [out |-> m, prod_attr_values |-> prod_attr_values]
                ELSE create_product_attributes_values(
                         txns[w].acl, 0, 6, [tables EXCEPT !.products = u.products],
                         prod_attr_values, product.id, product.base_product_id,
                         txns[w].payload.attributes.values)
       IN  IF a.out.result = "Ok"
           THEN /\ products' = u.products
                /\ prod_attr_values' = a.prod_attr_values
                /\ txns' = TxnDone(w, "Ok")
           ELSE /\ UNCHANGED <<products, prod_attr_values>>
                /\ txns' = TxnDone(w, a.out.result)
    /\ UNCHANGED <<user_roles, next_role_id, roles_cache, stores, base_products,
                   req, last, hist>>
    /\ UNCHANGED cache_vars

InitTxn ==
    /\ stores = StoreRows
    /\ base_products = BaseProductRows
    /\ products = ProductRows
    /\ prod_attr_values = InitProdAttrs
    /\ user_roles \in ServiceRoleTables
    /\ next_role_id = Cardinality(UserIds) + 1
    /\ roles_cache = EmptyRolesCache
    /\ req = IdleReq
    /\ last = NoCall
    /\ hist = NoHist
    /\ InitCaches
    /\ txns = IdleTxns

NextTxn ==
    \/ \E user_id \in UserIds : CreateRepo(user_id, TRUE)
    \/ \E w \in Workers,
          payload \in {n \in NewProducts : /\ n.base_product_id = 1
                                           /\ n.attributes = <<1, 2>>} :
            TxnCreate_check(w, payload)
    \/ \E w \in Workers : TxnCreate_write(w)
    \/ \E w \in Workers, p \in ProductIds,
          payload \in {u \in UpdateProducts :
                          \/ u.product.vendor_code # "none" /\ ~u.attributes.present
                          \/ ~u.product.present /\ u.attributes.values = <<1, 2>>} :
            TxnUpdate_check(w, p, payload)
    \/ \E w \in Workers : TxnUpdate_write(w)

SpecTxn == InitTxn /\ [][NextTxn]_vars

\* Requests that update products: over an intact ownership chain, over one
\* that misses the base product or the store of product 2, and over a
\* table in which product 2 is deactivated.
InitUpdate ==
    /\ stores \in {StoreRows, {r \in StoreRows : r.id = 1}}
    /\ base_products \in {BaseProductRows, {r \in BaseProductRows : r.id = 1}}
    /\ products \in {ProductRows,
                      {IF r.id = 2 THEN [r EXCEPT !.is_active = FALSE] ELSE r :
                          r \in ProductRows}}
    /\ \/ stores = StoreRows /\ base_products = BaseProductRows
       \/ stores = StoreRows /\ products = ProductRows
       \/ base_products = BaseProductRows /\ products = ProductRows
    /\ prod_attr_values = InitProdAttrs
    /\ user_roles \in ServiceRoleTables
    /\ next_role_id = Cardinality(UserIds) + 1
    /\ roles_cache = EmptyRolesCache
    /\ req = IdleReq
    /\ last = NoCall
    /\ hist = NoHist
    /\ InitCaches
    /\ txns = IdleTxns

NextUpdate ==
    \/ \E user_id \in UserIds \cup {NoUser}, conn_ok \in BOOLEAN :
            CreateRepo(user_id, conn_ok)
    \/ \E p \in LookupIds, payload \in UpdateProducts, s \in ServiceFaults :
            UpdateProduct(p, payload, s.other, s.fail_at)

SpecUpdate == InitUpdate /\ [][NextUpdate]_vars

\* ------------------------------------------------------- claims under Spec
\* The users the ownership chain of a base product ends at (none if broken).
OwnersOfBase(base_id) ==
    {st.user_id : st \in {x \in stores :
        \E b \in base_products : b.id = base_id /\ b.store_id = x.id}}
OwnersOfProduct(product_id) ==
    UNION {OwnersOfBase(p.base_product_id) : p \in {x \in products : x.id = product_id}}

GrantsAll(roles, resource, action) ==
    \E i \in DOMAIN roles : PermissionTable(roles[i], resource, action) = "All"
GrantsOwned(roles, resource, action) ==
    \E i \in DOMAIN roles : PermissionTable(roles[i], resource, action) = "Owned"
OnlyOwned(roles, resource, action) ==
    GrantsOwned(roles, resource, action) /\ ~GrantsAll(roles, resource, action)

\* Every order in which a role list can be given.
Orders(roles) ==
    LET n == Len(roles)
        perms == {f \in [1..n -> 1..n] : \A i, j \in 1..n : f[i] = f[j] => i = j}
    IN  {[i \in 1..n |-> roles[f[i]]] : f \in perms}

\* The entities a check on a resource can be given (the empty set is None).
Entities(resource) ==
    CASE resource = "Products" -> {{p} : p \in products} \cup {{}}
      [] resource = "ProductAttrs" -> {{a} : a \in prod_attr_values} \cup {{}}
      [] OTHER -> {{}}

\* The check as the repository of the resource runs it.
Decision(acl, conn_ok, resource, action, obj) ==
    IF resource = "ProductAttrs"
    THEN ProductAttrsScope(db, conn_ok, acl, resource, action, obj)
    ELSE ProductsScope(db, conn_ok, acl, resource, action, obj)

ReadAction(op) == IF op = "deactivate" THEN "Delete" ELSE "Read"

\* C1: an actor one of whose roles grants Scope::All for (resource, action)
\* is allowed, on every entity, owned or not, in whatever order the roles
\* are listed and whatever the other roles grant; find and deactivate of an
\* existing row pass their check for such an actor.
Claim_C1 ==
    /\ (req.pc = "repo" /\ req.acl.kind = "Application") =>
          \A resource \in Resource, action \in Action :
             GrantsAll(req.acl.roles, resource, action) =>
                \A order \in Orders(req.acl.roles), obj \in Entities(resource) :
                   Decision(ApplicationAcl(order, req.acl.user_id), TRUE,
                            resource, action, obj)
    /\ (/\ last.op \in {"find", "deactivate"}
        /\ last.out.found
        /\ last.acl.kind = "Application"
        /\ GrantsAll(last.acl.roles, "Products", ReadAction(last.op)))
          => last.out.check = "pass"

\* A product of another user was read by an actor whose first listed role
\* grants only Owned and whose second grants All.
Witness_C1 ==
    /\ last.op = "find"
    /\ last.out.result = "Some"
    /\ last.acl.kind = "Application"
    /\ Len(last.acl.roles) = 2
    /\ PermissionTable(last.acl.roles[1], "Products", "Read") = "Owned"
    /\ PermissionTable(last.acl.roles[2], "Products", "Read") = "All"
    /\ last.acl.user_id \notin OwnersOfProduct(last.arg)

\* C2: under roles that grant only Scope::Owned for (Products, Delete),
\* deactivate(p) of an existing product passes its check exactly when the
\* store of p's base product belongs to the actor; otherwise it is denied,
\* and a deactivation that returned the row left it inactive.
Claim_C2 ==
    (/\ last.op = "deactivate"
     /\ last.out.found
     /\ last.acl.kind = "Application"
     /\ OnlyOwned(last.acl.roles, "Products", "Delete"))
       => /\ last.out.check = "pass" <=> last.acl.user_id \in OwnersOfProduct(last.arg)
          /\ last.acl.user_id \notin OwnersOfProduct(last.arg)
                => last.out.result = "Denied"
          /\ last.acl.user_id \in OwnersOfProduct(last.arg)
                => last.out.result \in {"Ok", "NotFound"}
          /\ last.out.result = "Ok"
                => \E p \in products : p.id = last.arg /\ ~p.is_active

\* The owner, holding only an Owned grant, deactivated a product.
Witness_C2 ==
    /\ last.op = "deactivate"
    /\ last.out.result = "Ok"
    /\ last.acl.kind = "Application"
    /\ OnlyOwned(last.acl.roles, "Products", "Delete")
    /\ last.acl.user_id \in OwnersOfProduct(last.arg)

\* C3: an Owned-scoped check of a product, or of a product attribute value,
\* whose base-product row or store row is missing is denied: the call
\* returns the denial, no row and no other outcome.
Claim_C3 ==
    /\ (/\ last.op \in {"find", "deactivate"}
        /\ last.out.found
        /\ last.acl.kind = "Application"
        /\ OnlyOwned(last.acl.roles, "Products", ReadAction(last.op))
        /\ OwnersOfProduct(last.arg) = {})
          => last.out = Outcome("Denied", TRUE, "fail", {})
    /\ (/\ last.op = "find_all_attributes"
        /\ last.out.found
        /\ last.acl.kind = "Application"
        /\ OnlyOwned(last.acl.roles, "ProductAttrs", "Read")
        /\ \E a \in prod_attr_values :
              a.prod_id = last.arg /\ OwnersOfBase(a.base_prod_id) = {})
          => last.out = Outcome("Denied", TRUE, "fail", {})

\* A product whose base-product row is missing was asked for under an
\* Owned grant, and the call was denied.
Witness_C3 ==
    /\ last.op = "find"
    /\ last.out.result = "Denied"
    /\ last.acl.kind = "Application"
    /\ OnlyOwned(last.acl.roles, "Products", "Read")
    /\ \E p \in products :
          /\ p.id = last.arg
          /\ \A b \in base_products : b.id # p.base_product_id

\* C4: a request without a user id gets the unauthorized evaluator with no
\* role lookup, and that evaluator denies every pair that is not public,
\* whatever the user_roles table holds.
Claim_C4 ==
    /\ (req.pc = "repo" /\ req.user_id = NoUser) =>
          /\ req.acl = UnauthorizedAcl
          /\ req.lookup = "none"
          /\ \A resource \in Resource, action \in Action :
                ~Public(resource, action) =>
                   \A obj \in Entities(resource) :
                      ~Decision(req.acl, req.conn_ok, resource, action, obj)
    /\ (last.op # "none" /\ last.acl.kind = "Unauthorized" /\ last.out.found)
          => last.out.result = "Denied"

\* An anonymous request for an existing product was denied while the
\* user_roles table held rows.
Witness_C4 ==
    /\ last.op = "find"
    /\ last.acl = UnauthorizedAcl
    /\ last.out.result = "Denied"
    /\ user_roles # {}

\* C9 (as claimed): find of an existing active product that fails the Read
\* check gives the caller what find of an id without a row gives.
Claimed_C9 ==
    (last.op = "find" /\ last.out.found /\ last.out.check = "fail")
       => LET absent == CHOOSE id \in LookupIds : \A p \in products : p.id # id
          IN  last.out.result = products_find(last.acl, TRUE, db, absent).result

\* C10 (as claimed): a role lookup that fails on the connection is not
\* turned into an evaluator over the empty role set.
Claimed_C10 ==
    (req.pc = "repo" /\ req.lookup = "failed")
       => ~(req.acl.kind = "Application" /\ req.acl.roles = <<>>)

\* C12 (as claimed): the check is deterministic: two evaluations with the same
\* actor roles, user id, resource, action and entity over the same base
\* products and stores give the same decision, whether or not the ownership
\* queries of one of them fail.
Claimed_C12 ==
    req.pc = "repo" =>
        \A resource \in {"Products", "ProductAttrs"}, action \in Action :
            \A obj \in Entities(resource) :
                Decision(req.acl, TRUE, resource, action, obj)
                    <=> Decision(req.acl, FALSE, resource, action, obj)

\* C14: the user-roles repository that resolves roles is built with the system
\* evaluator: get_roles(id) is never denied, whatever roles the user holds or
\* lacks, and get_acl of an authenticated user always completes with an
\* application evaluator over the roles of the table, without needing that
\* user's evaluator first.
Claim_C14 ==
    /\ \A u \in UserIds, conn_ok \in BOOLEAN :
            LET g == get_acl(roles_cache, user_roles, conn_ok, u)
            IN  /\ g.lookup # "denied"
                /\ g.acl.kind = "Application"
                /\ g.lookup \in {"cached", "db"} =>
                        g.acl = ApplicationAcl(list_for_user(user_roles, u), u)
    /\ (req.pc = "repo" /\ req.user_id # NoUser) =>
            /\ req.lookup # "denied"
            /\ req.acl.kind = "Application"

\* The roles of a user who holds none were resolved from the table.
Witness_C14 ==
    /\ req.pc = "repo"
    /\ req.user_id # NoUser
    /\ req.lookup = "db"
    /\ list_for_user(user_roles, req.user_id) = <<>>
    /\ req.acl = ApplicationAcl(<<>>, req.user_id)

\* The owners an entity of a resource resolves to.
OwnersOf(resource, obj) ==
    IF resource = "ProductAttrs"
    THEN UNION {OwnersOfBase(a.base_prod_id) : a \in obj}
    ELSE UNION {OwnersOfBase(p.base_product_id) : p \in obj}

\* -------------------------------------------------- claims under SpecRoles
Holds(roles, role) == \E i \in DOMAIN roles : roles[i] = role

\* The pair is granted by the role and by no other role of the list.
SolelyBy(roles, role, resource, action) ==
    /\ Holds(roles, role)
    /\ PermissionTable(role, resource, action) \in Scope
    /\ \A i \in DOMAIN roles :
          roles[i] # role => PermissionTable(roles[i], resource, action) = "Deny"

\* The role set a request of the user fetches now.
FreshRoles(user_id) == get_roles(roles_cache, user_roles, TRUE, user_id).roles

SameDecisions(user_id, roles_a, roles_b) ==
    \A resource \in Resource, action \in Action :
       \A obj \in Entities(resource) :
          Decision(ApplicationAcl(roles_a, user_id), TRUE, resource, action, obj)
            <=> Decision(ApplicationAcl(roles_b, user_id), TRUE, resource, action, obj)

\* C5: once delete(U, R) has returned success, the check over the role set
\* fetched afterwards for U denies every pair that only R granted to U
\* before the deletion, on every entity.
Claim_C5 ==
    hist.stage \in {"revoked", "roundtrip"} =>
       \A resource \in Resource, action \in Action :
          SolelyBy(hist.pre_del, hist.role, resource, action) =>
             \A obj \in Entities(resource) :
                ~Decision(ApplicationAcl(FreshRoles(hist.user_id), hist.user_id),
                          TRUE, resource, action, obj)

\* A user whose Products/Read access came from the revoked role alone asked
\* for a product after the revocation, with freshly fetched roles, and was
\* denied.
Witness_C5 ==
    /\ hist.stage = "revoked"
    /\ SolelyBy(hist.pre_del, hist.role, "Products", "Read")
    /\ last.op = "find"
    /\ last.out.result = "Denied"
    /\ last.acl.kind = "Application"
    /\ last.acl.user_id = hist.user_id
    /\ last.acl.roles = list_for_user(user_roles, hist.user_id)
    /\ ~Holds(last.acl.roles, hist.role)

\* C6 (as claimed): create(U, R) immediately followed by delete(U, R)
\* leaves every decision for U as it was before the grant, from every
\* starting set of role assignments.
Claimed_C6 ==
    hist.stage = "roundtrip" =>
       SameDecisions(hist.user_id, FreshRoles(hist.user_id), hist.pre)

\* C6 (amended): when U does not hold R before the grant, create(U, R)
\* immediately followed by delete(U, R) leaves U's role list, and so every
\* decision for U, as it was before the grant.
Claim_C6 ==
    (hist.stage = "roundtrip" /\ ~Holds(hist.pre, hist.role)) =>
       /\ FreshRoles(hist.user_id) = hist.pre
       /\ SameDecisions(hist.user_id, FreshRoles(hist.user_id), hist.pre)

\* A user holding another role was granted, and at once lost, a role that
\* grants a pair the other role denies.
Witness_C6 ==
    /\ hist.stage = "roundtrip"
    /\ ~Holds(hist.pre, hist.role)
    /\ hist.pre # <<>>
    /\ \E resource \in Resource, action \in Action :
          /\ PermissionTable(hist.role, resource, action) \in Scope
          /\ \A i \in DOMAIN hist.pre :
                PermissionTable(hist.pre[i], resource, action) = "Deny"

Claimed_C8 ==
    \A r \in Readers :
        (readers[r].pc = "done" /\ readers[r].ok) =>
            readers[r].result >= readers[r].need

\* C23: in every interleaving of get_all with category create or update,
\* get_all returns a category tree, from the cache or from the repository; it
\* never fails because the cache was cleared between is_some and get.
Claimed_C23 ==
    \A r \in Readers :
        (readers[r].pc = "done" /\ readers[r].kind = "categories") => readers[r].ok

\* ------------------------------------------------------ claims under SpecRepo
\* The rows a read of several rows selected, recomputed from its argument.
Selected(op, arg) ==
    CASE op = "find_many" -> {p \in products : p.id \in arg /\ p.is_active}
      [] op = "list" ->
            LET hit == {p \in products : p.is_active /\ p.id >= arg.from}
                s == Limit(OrderById(hit), arg.count)
            IN  {s[i] : i \in DOMAIN s}
      [] op = "find_with_base_id" ->
            {p \in products : p.base_product_id = arg /\ p.is_active}
      [] op = "find_all_attributes" -> {a \in prod_attr_values : a.prod_id = arg}

ReadsMany == {"find_many", "list", "find_with_base_id", "find_all_attributes"}

ReadAllowed(op, acl, row) ==
    IF op = "find_all_attributes"
    THEN ProductAttrsScope(db, TRUE, acl, "ProductAttrs", "Read", {row})
    ELSE ProductsScope(db, TRUE, acl, "Products", "Read", {row})

\* C11: find_many, list, find_with_base_id and find_all_attributes return Ok
\* with rows only if the Read check passed for each returned row; if the
\* check fails for a single selected row, the call returns an error and none
\* of the rows.
Claim_C11 ==
    last.op \in ReadsMany =>
        /\ last.out.result = "Rows" =>
                /\ last.out.rows = Selected(last.op, last.arg)
                /\ \A row \in last.out.rows : ReadAllowed(last.op, last.acl, row)
        /\ (/\ last.out.result # "DbError"
            /\ \E row \in Selected(last.op, last.arg) :
                    ~ReadAllowed(last.op, last.acl, row)) =>
                /\ last.out.result = "Denied"
                /\ last.out.rows = {}

\* A find_many that selected one row the caller may read and one it may not.
Witness_C11 ==
    /\ last.op = "find_many"
    /\ last.out.result = "Denied"
    /\ \E row \in Selected(last.op, last.arg) : ReadAllowed(last.op, last.acl, row)
    /\ \E row \in Selected(last.op, last.arg) : ~ReadAllowed(last.op, last.acl, row)

\* C13: an access check has no side effects: across every call that only
\* reads and checks, allowed or denied and with the ownership chain of an
\* Owned scope resolved, the products, product attribute values, base
\* products, stores and role assignments are the same as before.
Claim_C13 ==
    [][(last'.op \in ReadsMany /\ last'.out.check \in {"pass", "fail"})
          => <<products, prod_attr_values, base_products, stores, user_roles>>'
             = <<products, prod_attr_values, base_products, stores, user_roles>>]_vars

\* A read denied after the ownership chain of an Owned grant was resolved.
Witness_C13 ==
    /\ last.op = "find_many"
    /\ last.out.check = "fail"
    /\ last.acl.kind = "Application"
    /\ OnlyOwned(last.acl.roles, "Products", "Read")

\* The active products with id >= from, which list(from, count) selects from.
Listed(from) == {p \in products : p.is_active /\ p.id >= from}

\* C19: ProductsRepo.list(from, count), when it returns, returns only active
\* products with id >= from, in ascending id order, at most count of them,
\* and exactly count of them when at least count such products exist.
Claim_C19 ==
    (last.op = "list" /\ last.out.result = "Rows") =>
        LET s == last.out.seq
            from == last.arg.from
            count == last.arg.count
        IN  /\ \A i \in DOMAIN s : s[i] \in Listed(from)
            /\ \A i, j \in DOMAIN s : i < j => s[i].id < s[j].id
            /\ Len(s) <= count
            /\ Cardinality(Listed(from)) >= count => Len(s) = count

\* A page of one product that follows a deactivated product.
Witness_C19 ==
    /\ last.op = "list"
    /\ last.out.result = "Rows"
    /\ last.arg.count = 1
    /\ Len(last.out.seq) = 1
    /\ \E p \in products : /\ ~p.is_active
                            /\ p.id >= last.arg.from
                            /\ p.id < last.out.seq[1].id

Claim_C26 ==
    (/\ last.op = "check"
     /\ last.acl.kind = "Application"
     /\ Len(last.acl.roles) = 1
     /\ last.arg.resource \in {"Products", "ProductAttrs"}) =>
        LET scope == PermissionTable(last.acl.roles[1], last.arg.resource,
                                     last.arg.action)
        IN  /\ (scope = "Owned" /\ last.out.rows = {}) => last.out.result = "Denied"
            /\ scope = "All" => last.out.result = "Allowed"

\* A check on product attribute values under a single Owned grant, made with
\* no entity, was denied.
Witness_C26 ==
    /\ last.op = "check"
    /\ last.acl.kind = "Application"
    /\ Len(last.acl.roles) = 1
    /\ last.arg.resource = "ProductAttrs"
    /\ PermissionTable(last.acl.roles[1], last.arg.resource, last.arg.action) = "Owned"
    /\ last.out.rows = {}
    /\ last.out.result = "Denied"

\* --------------------------------------------------- claims under SpecService
\* C16: deactivate_product(p) is atomic: on success product p keeps its id, has
\* is_active = false and all attribute values of p are deleted; on any
\* failure, including a denial by the products or the product-attributes
\* repository, neither the product row nor any attribute value is changed.
Claim_C16 ==
    [][last'.op = "deactivate_product" =>
          IF last'.out.result = "Ok"
          THEN /\ \E was \in products :
                     /\ was.id = last'.arg
                     /\ products' = (products \ {was})
                                        \cup {[was EXCEPT !.is_active = FALSE]}
                     /\ last'.out.rows = {[was EXCEPT !.is_active = FALSE]}
               /\ prod_attr_values' = {a \in prod_attr_values : a.prod_id # last'.arg}
          ELSE /\ products' = products
               /\ prod_attr_values' = prod_attr_values]_vars

\* A deactivation passed by the products repository and denied by the
\* product-attributes repository, after both had written.
Witness_C16 ==
    /\ last.op = "deactivate_product"
    /\ last.out.result = "Denied"
    /\ \E p \in products :
            /\ p.id = last.arg
            /\ p.is_active
            /\ ProductsScope(db, TRUE, last.acl, "Products", "Delete", {p})
    /\ \E a \in prod_attr_values : a.prod_id = last.arg

\* The base product of a create_product payload has a row, and so has its
\* store.
BaseOf(payload) == {b \in base_products : b.id = payload.base_product_id}
StoreOfBase(payload) == {st \in stores : \E b \in BaseOf(payload) : st.id = b.store_id}

\* What both readings of C17 say about the result, the NotFound cases, the
\* vendor code and the failures; denial_as is the error a denial is said to
\* give.
CreateProductContract(denial_as) ==
    last'.op = "create_product" =>
        LET payload == last'.arg.payload
            fail_at == last'.arg.fail_at
            out == last'.out
        IN  /\ out.result = "Ok" =>
                   \E product \in out.rows :
                       /\ product.base_product_id = payload.base_product_id
                       /\ products' = products \cup {product}
                       /\ product \notin products
            /\ payload.base_product_id = 0 => out.result = "NotFound"
            /\ (fail_at # 1 /\ BaseOf(payload) = {}) => out.result = "NotFound"
            /\ ( /\ fail_at \notin {1, 2}
                 /\ last'.arg.other = "pass"
                 /\ StoreOfBase(payload) # {}
                 /\ \E st \in StoreOfBase(payload) :
                        vendor_code_exists(db, st.id, payload.vendor_code) )
                   => out.result = "Validate"
            /\ out.check = "fail" => out.result = denial_as
            /\ out.result # "Ok" =>
                   /\ products' = products
                   /\ prod_attr_values' = prod_attr_values

\* C17 as stated: create_product returns a product with the payload's
\* base_product_id; it fails with NotFound when the payload has no base
\* product id or the base product does not exist, and with a validation
\* error when the vendor code exists in the base product's store or a denial
\* occurs; no failure persists a product row or an attribute value.
Claimed_C17 == [][CreateProductContract("Validate")]_vars

\* C17, amended: as above, but a denial is answered with the forbidden
\* error of the access check, not with a validation error.
Claim_C17 == [][CreateProductContract("Denied")]_vars

\* A create_product denied by the products repository after its insert.
Witness_C17 ==
    /\ last.op = "create_product"
    /\ last.out.result = "Denied"
    /\ last.arg.fail_at = 0
    /\ last.arg.other = "pass"
    /\ last.arg.payload.attributes = <<>>
    /\ \E b \in base_products : b.id = last.arg.payload.base_product_id
    /\ Cardinality(products) = Cardinality(ProductRows)

\* ---------------------------------------------------- claims under SpecUpdate
\* The attribute values of product p in a table.
ValuesOf(attr_rows, p) == {a \in attr_rows : a.prod_id = p}

\* C18: update_product(p, payload) returns the product with id p and never
\* changes the id or the base_product_id of a product; when payload.product
\* is absent the product row is left unchanged and only the attribute values
\* of p are replaced, and only when payload.attributes is present.
Claim_C18 ==
    [][last'.op = "update_product" =>
          LET p == last'.arg.product_id
              payload == last'.arg.payload
              out == last'.out
          IN  /\ out.result = "Ok" =>
                     \E product \in products' : product.id = p /\ out.rows = {product}
              /\ {<<r.id, r.base_product_id>> : r \in products'} =
                     {<<r.id, r.base_product_id>> : r \in products}
              /\ Cardinality(products') = Cardinality(products)
              /\ ~payload.product.present => products' = products
              /\ prod_attr_values' \ ValuesOf(prod_attr_values', p) =
                     prod_attr_values \ ValuesOf(prod_attr_values, p)
              /\ ~payload.attributes.present => prod_attr_values' = prod_attr_values
              /\ (out.result = "Ok" /\ payload.attributes.present) =>
                     /\ Cardinality(ValuesOf(prod_attr_values', p)) =
                            Len(payload.attributes.values)
                     /\ {a.attr_id : a \in ValuesOf(prod_attr_values', p)} =
                            {payload.attributes.values[i] :
                                i \in DOMAIN payload.attributes.values}]_vars

\* An update without a product payload that replaced the attribute values.
Witness_C18 ==
    /\ last.op = "update_product"
    /\ last.out.result = "Ok"
    /\ ~last.arg.payload.product.present
    /\ last.arg.payload.attributes.present
    /\ products \in {ProductRows}
    /\ {a.attr_id : a \in ValuesOf(prod_attr_values, last.arg.product_id)} = {1, 2}

\* ----------------------------------------------------- claims under SpecWrite
\* The repository calls that write after they checked.
ChecksFirst == {"update", "deactivate", "update_prod_attr", "create_attribute",
                "update_attribute"}

\* C20: ProductsRepo.update and deactivate, ProductAttrsRepo.update and
\* AttributesRepo.create and update check before they write: when the check
\* denies, the call returns an error and every stored row is as before.
Claim_C20 ==
    [][(last'.op \in ChecksFirst /\ last'.out.check = "fail") =>
          /\ last'.out.result = "Denied"
          /\ last'.out.rows = {}
          /\ tables' = tables
          /\ attributes' = attributes]_vars

\* A store owner denied the update of a product of another owner's store.
Witness_C20 ==
    /\ last.op = "update"
    /\ last.out.check = "fail"
    /\ last.acl.kind = "Application"
    /\ last.acl.roles = <<"User">>
    /\ \E p \in products : p.id = last.arg.product_id /\ p.is_active

\* ----------------------------------------------- claims under SpecProductsRepo
\* The reads of the products repository, and the id its writes name.
ProductReads == {"find", "find_many", "list", "find_with_base_id"}
Deactivated == {p \in products : ~p.is_active}
WriteTarget(call) ==
    IF call.op = "update" THEN call.arg.product_id ELSE call.arg

\* C21: deactivation is irreversible: a product whose is_active is false
\* stays as it is through every operation of the products repository; find,
\* find_many, list and find_with_base_id never return it; update and
\* deactivate called on it return an error and change no row.
Claim_C21 ==
    [][/\ Deactivated \subseteq products'
       /\ last'.op \in ProductReads =>
              \A r \in last'.out.rows : r.is_active /\ r.id \notin {p.id : p \in Deactivated}
       /\ (last'.op \in {"update", "deactivate"}
              /\ WriteTarget(last') \in {p.id : p \in Deactivated}) =>
              /\ last'.out.result \notin {"Ok", "Some", "Rows"}
              /\ last'.out.rows = {}
              /\ products' = products]_vars

\* An update, allowed by the check, of a product that was deactivated.
Witness_C21 ==
    /\ last.op = "update"
    /\ last.out.check = "pass"
    /\ last.out.result = "NotFound"
    /\ \E p \in Deactivated : p.id = last.arg.product_id

\* C24: update_currency(c, b) sets the currency to c on exactly the active
\* products of base product b and returns their number; inactive products
\* and products of other base products are unchanged; when the Read check
\* fails for one of those products the call returns an error and no product
\* is changed.
Claim_C24 ==
    [][last'.op = "update_currency" =>
          LET c == last'.arg.currency
              b == last'.arg.base_product_id
              hit == {p \in products : p.base_product_id = b /\ p.is_active}
          IN  /\ last'.out.result = "Ok" =>
                     /\ products' = (products \ hit)
                                        \cup {[p EXCEPT !.currency = c] : p \in hit}
                     /\ last'.arg.count = Cardinality(hit)
              /\ last'.out.check = "fail" =>
                     /\ last'.out.result = "Denied"
                     /\ products' = products
              /\ last'.out.result # "Ok" => products' = products]_vars

\* A currency update of a base product with an active and a deactivated
\* product.
Witness_C24 ==
    /\ last.op = "update_currency"
    /\ last.out.result = "Ok"
    /\ last.arg.count = 1
    /\ \E p, q \in products :
            /\ p.base_product_id = last.arg.base_product_id
            /\ q.base_product_id = last.arg.base_product_id
            /\ p.is_active /\ p.currency = last.arg.currency
            /\ ~q.is_active /\ q.currency # last.arg.currency

\* ------------------------------------------------------ claims under SpecTxn
\* The store a product belongs to, through its base product.
StoresOf(p) == {b.store_id : b \in {x \in base_products : x.id = p.base_product_id}}

\* C22: in every interleaving of concurrent create_product and update_product
\* requests no two products of the same store end up with the same vendor
\* code.
Claimed_C22 ==
    \A p, q \in products :
        (p.id # q.id /\ StoresOf(p) \cap StoresOf(q) # {}) => p.vendor_code # q.vendor_code

\* The attribute values written by a request (the rows the tables start with
\* are InitProdAttrs).
CreatedValues == {a \in prod_attr_values : a.id > Cardinality(InitProdAttrs)}

\* C25: every product attribute value created through create_product or
\* update_product has the base_prod_id of the product named by its prod_id,
\* so its owner resolved through base_prod_id is its owner resolved through
\* its product.
Claim_C25 ==
    \A a \in CreatedValues :
        /\ \E p \in products : p.id = a.prod_id
        /\ \A p \in products : p.id = a.prod_id => a.base_prod_id = p.base_product_id
        /\ OwnersOfBase(a.base_prod_id) = OwnersOfProduct(a.prod_id)

\* A value written by create_product for its new product next to a value
\* written by update_product, both with an owner.
Witness_C25 ==
    /\ \E a \in CreatedValues : a.prod_id > Cardinality(ProductRows)
                                /\ OwnersOfBase(a.base_prod_id) # {}
    /\ \E a \in CreatedValues : a.prod_id <= Cardinality(ProductRows)
                                /\ OwnersOfBase(a.base_prod_id) # {}
    /\ \E w \in Workers : txns[w].kind = "create" /\ txns[w].out = "Ok"
    /\ \E w \in Workers : txns[w].kind = "update" /\ txns[w].out = "Ok"

====
